---- MODULE Spec2Model ----
(***************************************************************************)
(* Model of the reactive core of violit: signals (State), the dependency   *)
(* tracker, the session store kept in a TTL cache (GLOBAL_STORE), the      *)
(* component registry and the render orchestrator (_render_all,            *)
(* _get_dirty_rendered).                                                   *)
(***************************************************************************)
EXTENDS Integers, Sequences, FiniteSets, TLC

(* ---------------------------- bounds ----------------------------------- *)
MaxCount == 2          \* cap on a store's component_count
MaxTime == 1800        \* the clock stops advancing here
TickStep == 900        \* seconds that pass in one Tick
MaxList == 2           \* cap on the length of an order or child list

(* ------------------------- program constants --------------------------- *)
TTL == 1800            \* TTLCache(maxsize=1000, ttl=1800)
maxsize == 1000        \* TTLCache(maxsize=1000, ttl=1800)

(* ------------------------------ universe ------------------------------- *)
NoneSid == "None"                       \* session_ctx default (None)
Sids == {"A", "B"}
Keys == Sids \cup {NoneSid}
Tasks == {"main", "t1", "t2"}           \* "main" runs the static pass
Names == {"s1", "s2"}                   \* signal names
Vals == {0, 1}
Unset == -1                             \* name not in store['states']
NoCid == -1                             \* rendering_ctx default (None)
FragId == MaxCount                      \* "fragment_0" (App.fragment)
DialogId == MaxCount + 1                \* "dialog_<func name>" (dialog)
ListId == MaxCount + 2                  \* list_container(id="posts")
Cids == 0 .. ListId                     \* "prefix_N" is modelled by N
Kinds == {"plain", "cond", "w"}         \* builder closures
NoBuilder == "none"
ListKinds == {"list", "listg"}          \* list_container builders, without
                                        \* and with a gap style
GapMark == -2                           \* style="gap: ..." in the markup
WrapKind == "btnw"                      \* button(text=callable, cls=...)
DerivedKinds == {"sum2", "both"}         \* widgets that show a ComputedState
BoomKind == "boom"                      \* a widget whose content callable raises
FragKinds == {"fragw", "fragb"}         \* fragment functions that call widgets
PageKinds == {"page", "pagex"}          \* page renderers of a navigation
Acts == {"toggle", "peek", "save"}      \* action callbacks
NotifyAct == "notify"                   \* a callback that sets a signal and
                                        \* shows a toast and balloons
NoAction == "none"
NoConn == "none"                        \* sid not in ws_engine.sockets

VARIABLES
  now,                  \* the cache's timer (time.monotonic), in seconds
  phase,                \* "static": the script body runs; "serving": app.run()
  session_ctx,          \* session_ctx, one value per task
  GLOBAL_STORE,         \* the TTLCache: key -> [present, expires, data]
  static_builders,      \* App.static_builders
  static_order,         \* App.static_order
  static_sidebar_order, \* App.static_sidebar_order
  pc,                   \* position of a get_session_store call in progress
  ret,                  \* what the last operation was given and returned
  lastAccess,           \* history: time of the last lookup of each key
  everRead,             \* history: <<signal, cid>> read in a render pass of the store
  lastReads,            \* history: signals read by each cid's latest builder run
  owed,                 \* history: cids that read a signal written since the last drain
  wrote,                \* history: signals written since the last drain
  written,              \* history: signals written since the store was created
  staticIds,            \* history: ids _get_next_cid produced with no session
  sessionIds,           \* history: ids _get_next_cid produced inside a session
  static_actions,       \* App.static_actions
  static_fragment_components, \* App.static_fragment_components
  registered,           \* the flag registered[0] of the fragment's wrapper
  sockets,              \* WsEngine.sockets: sid -> the task holding the channel
  chan,                 \* per task: "open" while it runs the ws handler loop
  rendering_ctx,        \* rendering_ctx, one value per task
  fragment_ctx,         \* fragment_ctx, one value per task
  failed,               \* the tasks whose request or handler an exception ended
  inbox,                \* per task: the click its channel delivered and the
                        \* handler has not taken yet (NoCid: none)
  page,                 \* the script of one loaded page in a browser:
                        \* window._ws, _wsReady, _actionQueue
  cast,                 \* the thread eval_all started: the session ids it
                        \* still has to visit, and what it did so far
  conf                  \* App.csrf_enabled, App.native_token, and the last
                        \* request a browser sent (its tokens)

vars == <<now, phase, session_ctx, GLOBAL_STORE,
          static_builders, static_order, static_sidebar_order,
          pc, ret, lastAccess, everRead, lastReads, owed, wrote, written,
          staticIds, sessionIds, static_actions, static_fragment_components,
          registered, sockets, chan, rendering_ctx, fragment_ctx, failed,
          inbox, page, cast, conf>>

regs == <<static_builders, static_order, static_sidebar_order>>
hist == <<everRead, lastReads, owed, wrote, written>>
ids == <<staticIds, sessionIds>>
ext == <<static_actions, static_fragment_components, registered, sockets, chan>>
amb == <<rendering_ctx, fragment_ctx, failed>>

(* --------------------------- State (signal) ---------------------------- *)
default_value(n) == 0

(* a tracker that forgets the edge *)
register_dependency_lost(tracker, n, c) == tracker

(* a registration that subscribes the component to every signal *)
register_dependency_any(tracker, n, c) ==
  [m \in Names |-> tracker[m] \cup {c}]

(* DependencyTracker.register_dependency *)
register_dependency(tracker, n, c) == [tracker EXCEPT ![n] = @ \cup {c}]

(* a tracker that answers with the subscribers of every signal *)
get_dirty_components_all(tracker, n) == UNION {tracker[m] : m \in Names}

(* DependencyTracker.get_dirty_components *)
get_dirty_components(tracker, n) == tracker[n]

(* State.value on the store record st while rendering_ctx = ctx *)
StateValue(st, n, ctx) ==
  [st  |-> IF ctx # NoCid
           THEN [st EXCEPT !.tracker = register_dependency(@, n, ctx)]
           ELSE st,
   val |-> IF st.states[n] = Unset THEN default_value(n) ELSE st.states[n]]

(* a State.set that forgets the subscribers of the signal it writes *)
StateSetClearing(st, n, v) ==
  [st EXCEPT !.states[n] = v, !.dirty_states = @ \cup {n}, !.tracker[n] = {}]

(* State.set on the store record st *)
StateSet(st, n, v) ==
  [st EXCEPT !.states[n] = v, !.dirty_states = @ \cup {n}]

(* ------------------------------ TTLCache ------------------------------- *)
NewStore(base) ==
  [states          |-> [n \in Names |-> Unset],
   tracker         |-> [n \in Names |-> {}],
   builders        |-> [c \in Cids |-> NoBuilder],
   component_count |-> base,
   order           |-> << >>,
   sidebar_order   |-> << >>,
   dirty_states    |-> {},
   actions         |-> [c \in Cids |-> NoAction],
   fragment_components |-> [c \in Cids |-> << >>],
   toasts          |-> << >>,  \* store['toasts'], store['effects'] and
   effects         |-> << >>,  \* store['eval_queue']: absent keys are
   eval_queue      |-> << >>,  \* read as []
   issued          |-> {}]     \* history: ids _get_next_cid returned here

AbsentEntry == [present |-> FALSE, expires |-> 0, data |-> NewStore(0)]

(* a cache whose entries never expire *)
ContainsLinked(G, k, time) == G[k].present

(* TTLCache.__contains__: the key is linked and its time has not come *)
Contains(G, k, time) == G[k].present /\ time < G[k].expires

(* TTLCache.__setitem__: expire(time), store the value, expires = time+ttl *)
SetItem(G, k, v, time) ==
  [j \in Keys |->
     IF j = k THEN [present |-> TRUE, expires |-> time + TTL, data |-> v]
     ELSE IF G[j].present /\ ~(time < G[j].expires) THEN AbsentEntry
     ELSE G[j]]

(* base_count of get_session_store *)
BaseCount(G, time) ==
  IF Contains(G, NoneSid, time) THEN G[NoneSid].data.component_count ELSE 0

(* get_session_store run without the clock moving: the cache afterwards *)
get_session_store(G, sid, time) ==
  IF ~Contains(G, sid, time)
  THEN SetItem(G, sid, NewStore(BaseCount(G, time)), time)
  ELSE G

(* session_ctx as one module-level variable, set by the first worker *)
SessionCtxGetGlobal(ctx, t) == ctx["t1"]

(* session_ctx.get() in task t: a ContextVar, one value per task *)
SessionCtxGet(ctx, t) == ctx[t]

(* ------------------------------ builders ------------------------------- *)
(* Component(tag, id=cid, content=...): its id and what its content shows *)
Component(c, content) == [id |-> c, html |-> content]

(* A widget builder: rendering_ctx.set(cid), evaluate the arguments,      *)
(* rendering_ctx.reset(token), return the Component.  The kinds are the   *)
(* argument shapes of text_widgets.write:                                 *)
(*   plain : the State s2                     (arg.value)                 *)
(*   cond  : lambda: s2.value if s1.value else None                       *)
(*   w     : a callable that reads s1 and sets s2 to what it read         *)
RunBuilder(kind, c, st) ==
  CASE kind = "plain" ->
         LET r == StateValue(st, "s2", c)
         IN  [st |-> r.st, comp |-> Component(c, <<r.val>>), reads |-> {"s2"},
              writes |-> {}]
    [] kind = "cond" ->
         LET r == StateValue(st, "s1", c)
         IN  IF r.val # 0
             THEN LET q == StateValue(r.st, "s2", c)
                  IN  [st |-> q.st, comp |-> Component(c, <<r.val, q.val>>),
                       reads |-> {"s1", "s2"}, writes |-> {}]
             ELSE [st |-> r.st, comp |-> Component(c, <<r.val>>),
                   reads |-> {"s1"}, writes |-> {}]
    [] OTHER ->
         LET r == StateValue(st, "s1", c)
         IN  [st |-> StateSet(r.st, "s2", r.val),
              comp |-> Component(c, <<r.val>>), reads |-> {"s1"},
              writes |-> {"s2"}]

(* store['builders'].get(cid) or self.static_builders.get(cid) *)
LookupBuilder(st, sb, c) ==
  IF st.builders[c] # NoBuilder THEN st.builders[c] ELSE sb[c]

(* the id of the Component a fragment builder returns: f"{fid}_wrapper",   *)
(* and of the div a button with cls or style is wrapped in: f"{cid}_wrap"  *)
WrapperId(c) == c + ListId + 1

(* _get_next_cid without "store['component_count'] += 1" *)
GetNextCidSame(st) ==
  [cid |-> st.component_count,
   st  |-> [st EXCEPT !.issued = @ \cup {st.component_count}]]

(* App._get_next_cid on the store record *)
GetNextCid(st) ==
  [cid |-> st.component_count,
   st  |-> [st EXCEPT !.component_count = @ + 1,
                      !.issued = @ \cup {st.component_count}]]

AppendNew(seq, c) == IF \E i \in DOMAIN seq : seq[i] = c THEN seq ELSE Append(seq, c)

(* App._register_component outside a fragment: the store record and the    *)
(* static registry afterwards                                              *)
RegisterComponent(st, sid, cid, kind, l_ctx, sb, so, sso) ==
  LET st1 == [st EXCEPT !.builders[cid] = kind]
  IN  IF sid = NoneSid
      THEN [st  |-> st1,
            sb  |-> [sb EXCEPT ![cid] = kind],
            so  |-> IF l_ctx = "sidebar" THEN so ELSE AppendNew(so, cid),
            sso |-> IF l_ctx = "sidebar" THEN AppendNew(sso, cid) ELSE sso]
      ELSE [st  |-> IF l_ctx = "sidebar"
                    THEN [st1 EXCEPT !.sidebar_order = Append(@, cid)]
                    ELSE [st1 EXCEPT !.order = Append(@, cid)],
            sb  |-> sb, so |-> so, sso |-> sso]

(* the static registry as one record *)
Static ==
  [sb |-> static_builders, so |-> static_order, sso |-> static_sidebar_order,
   sa |-> static_actions, sfc |-> static_fragment_components]

(* a registration that looks at the fragment scope only, never at the      *)
(* layout target inside it                                                 *)
RegisterFragFirst(st, S, sid, cid, kind, act, frag, l_ctx) ==
  LET st1 == [st EXCEPT !.builders[cid] = kind,
                        !.actions[cid] = IF act # NoAction THEN act ELSE @]
      sa1 == IF act # NoAction THEN [S.sa EXCEPT ![cid] = act] ELSE S.sa
      pair == [cid |-> cid, b |-> kind]
  IN  IF frag # NoCid
      THEN IF sid = NoneSid
           THEN [S EXCEPT !.sfc[frag] = Append(@, pair), !.sa = sa1,
                          !.sb[cid] = kind] @@ [st |-> st1]
           ELSE S @@ [st |-> [st1 EXCEPT !.fragment_components[frag] =
                                            Append(@, pair)]]
      ELSE LET r == RegisterComponent(st1, sid, cid, kind, l_ctx,
                                      S.sb, S.so, S.sso)
           IN  [st |-> r.st, sb |-> r.sb, so |-> r.so, sso |-> r.sso,
                sa |-> IF sid = NoneSid THEN sa1 ELSE S.sa, sfc |-> S.sfc]

(* App._register_component(cid, builder, action) with fragment_ctx = frag  *)
(* (NoCid: none) and layout_ctx = l_ctx: the store record and the static   *)
(* registry S afterwards                                                   *)
RegisterFull(st, S, sid, cid, kind, act, frag, l_ctx) ==
  LET st1 == [st EXCEPT !.builders[cid] = kind,
                        !.actions[cid] = IF act # NoAction THEN act ELSE @]
      sa1 == IF act # NoAction THEN [S.sa EXCEPT ![cid] = act] ELSE S.sa
      pair == [cid |-> cid, b |-> kind]
  IN  IF frag # NoCid
      THEN IF l_ctx = "sidebar"
           THEN IF sid = NoneSid
                THEN [S EXCEPT !.sb[cid] = kind, !.sa = sa1,
                               !.sso = AppendNew(@, cid)] @@ [st |-> st1]
                ELSE S @@ [st |-> [st1 EXCEPT !.sidebar_order = Append(@, cid)]]
           ELSE IF sid = NoneSid
                THEN [S EXCEPT !.sfc[frag] = Append(@, pair), !.sa = sa1,
                               !.sb[cid] = kind] @@ [st |-> st1]
                ELSE S @@ [st |-> [st1 EXCEPT
                                     !.fragment_components[frag] =
                                        Append(@, pair)]]
      ELSE LET r == RegisterComponent(st1, sid, cid, kind, l_ctx,
                                      S.sb, S.so, S.sso)
           IN  [st |-> r.st, sb |-> r.sb, so |-> r.so, sso |-> r.sso,
                sa |-> IF sid = NoneSid THEN sa1 ELSE S.sa, sfc |-> S.sfc]

(* no exception; and the exception a builder raised, with the values the   *)
(* reset calls it skipped leave in rendering_ctx and fragment_ctx          *)
NoExc == [raised |-> FALSE, rctx |-> NoCid, fctx |-> NoCid]
Exc(c, f) == [raised |-> TRUE, rctx |-> c, fctx |-> f]

(* the widgets a fragment function calls, in order: the function is        *)
(*   app.text(s2)                                                          *)
(*   if s1.value: app.text(...)                                            *)
(* and the second text shows lambda: s2.value if s1.value else None        *)
(* (fragw) or a callable that raises (fragb)                               *)
FragChildren(kind, s1) ==
  <<"plain">> \o (IF s1 = 0 THEN << >>
                  ELSE IF kind = "fragw" THEN <<"cond">> ELSE <<BoomKind>>)

(* a widget call made while a fragment renders, inside a request:          *)
(* _get_next_cid, then _register_component with fragment_ctx = frag        *)
RECURSIVE CallWidgets(_, _, _)
CallWidgets(st, frag, kinds) ==
  IF kinds = << >> THEN st
  ELSE LET g == GetNextCid(st)
       IN  CallWidgets(
             RegisterFull(g.st, Static, CHOOSE k \in Sids : TRUE, g.cid,
                          Head(kinds), NoAction, frag, "main").st,
             frag, Tail(kinds))

(* The builder closure `kind` run for component c:                         *)
(*   frag  : App.fragment.fragment_builder, for a fragment function that   *)
(*           calls no widget: the child list is reset, nothing is rendered *)
(*   fragw, fragb : fragment_builder for a function that calls widgets:    *)
(*           the child list is reset, func() registers the children of     *)
(*           this render, and their builders run in list order             *)
(*   dlg   : dialog.open_dialog.builder: renders the store's child list    *)
(*   list, listg : list_container builder: renders the static child list,  *)
(*           then the store's                                              *)
(*   btnw  : button builder with a callable text that reads s2 and with    *)
(*           cls or style: the sl-button inside a div of another id        *)
(*   boom  : a widget builder whose content callable reads s1 and raises   *)
(*           when s1 is set: rendering_ctx.reset(token) is not reached     *)
(*   else  : a widget builder                                              *)
(* sub is the log of the child builders it ran.  RunChildren is the loop   *)
(* "for cid, b in ...: htmls.append(b().render())": the builders kept in   *)
(* the child list run in list order, up to the first one that raises       *)
RECURSIVE Build(_, _, _), RunChildren(_, _, _), RenderCids(_, _, _, _)

(* the one element of a set: a local variable that holds what a call       *)
(* returned, as in "comp = builder()"                                      *)
Only(S) == CHOOSE y \in S : TRUE

(* one more entry of the log: builder b of component c gave r from st;    *)
(* nest tells, for a builder that ran other builders, what the rendering   *)
(* target was after each of them                                           *)
Logged(log, c, b, r, st) ==
  Append(log \o r.sub, [cid |-> c, kind |-> b, reads |-> r.reads,
                        writes |-> r.writes, seen |-> st.states,
                        nest |-> IF "nest" \in DOMAIN r THEN r.nest
                                 ELSE << >>])

(* a reset that clears the rendering target *)
CtxResetNone(token) == NoCid

(* token = rendering_ctx.set(cid) keeps the value that was current, and    *)
(* rendering_ctx.reset(token) makes it current again                       *)
CtxSet(cur, c) == [val |-> c, token |-> cur]
CtxReset(token) == token

(* the rendering target after each of the builders of log ran under the    *)
(* target outer: a widget builder sets its own id and resets by its        *)
(* token; the one that raised, the last of the log, did not reach its      *)
(* reset                                                                   *)
Nested(outer, log, exc) ==
  [i \in DOMAIN log |->
     [inner |-> log[i].cid,
      during |-> CtxSet(outer, log[i].cid).val,
      after |-> IF exc.raised /\ i = Len(log)
                THEN CtxSet(outer, log[i].cid).val
                ELSE CtxReset(CtxSet(outer, log[i].cid).token)]]

(* what a container builder returns once its child loop gave r *)
Contained(id, gap, r) ==
  [st |-> r.st, comp |-> Component(id, gap \o r.html), reads |-> {},
   writes |-> {}, sub |-> r.log, exc |-> r.exc]

(* fragment_builder after func() left the store f: the child loop, then    *)
(* the two reset calls unless a child builder raised                       *)
FragmentChildren(c, r) ==
  [st |-> r.st, comp |-> Component(WrapperId(c), r.html),
   reads |-> {"s1"}, writes |-> {}, sub |-> r.log,
   nest |-> Nested(c, r.log, r.exc),
   exc |-> IF r.exc.raised THEN Exc(r.exc.rctx, c) ELSE NoExc]

FragmentRender(c, f) ==
  FragmentChildren(c, RunChildren(f, f.fragment_components[c],
                                  [html |-> << >>, log |-> << >>]))

(* func() under rendering_ctx = fragment_ctx = c, v being its read of s1 *)
FragmentFunc(kind, c, v) ==
  FragmentRender(c, CallWidgets(v.st, c, FragChildren(kind, v.val)))

(* A derived signal is a ComputedState around a function; its value is    *)
(* self.func(), evaluated on every read.  The two derived signals are      *)
(*   sum2 : (s1 + s2) + 1        State.__add__, then ComputedState.__add__ *)
(*   both : (s1 == 1) & (s2 == 1)  State.__eq__, ComputedState.__and__     *)
(* and each operator gives the store, the value and the signals evaluated  *)

(* an s1 + s2 whose function reads its sources with no render target *)
StateAddUntracked(st, ctx) ==
  [st |-> st,
   val |-> StateValue(st, "s1", NoCid).val + StateValue(st, "s2", NoCid).val,
   reads |-> {"s1", "s2"}]

(* (s1 + s2).value: compute() reads self.value, then other.value *)
StateAdd(st, ctx) ==
  [st |-> StateValue(StateValue(st, "s1", ctx).st, "s2", ctx).st,
   val |-> StateValue(st, "s1", ctx).val + StateValue(st, "s2", ctx).val,
   reads |-> {"s1", "s2"}]

(* (d + 1).value for the derived signal d = s1 + s2 *)
ComputedAdd(d) == [d EXCEPT !.val = @ + 1]

(* (s == 1).value: 1 for True, 0 for False *)
StateEq(st, n, ctx) ==
  [st |-> StateValue(st, n, ctx).st,
   val |-> IF StateValue(st, n, ctx).val = 1 THEN 1 ELSE 0,
   reads |-> {n}]

(* (l & (s2 == 1)).value: self.value and other.value, l being the         *)
(* evaluation of self: other is evaluated only when self is true           *)
ComputedAnd(l, ctx) ==
  IF l.val = 0 THEN l
  ELSE [StateEq(l.st, "s2", ctx) EXCEPT !.reads = @ \cup l.reads]

(* ComputedState.value of the derived signal a widget of this kind shows *)
ComputedValue(kind, st, ctx) ==
  IF kind = "sum2" THEN ComputedAdd(StateAdd(st, ctx))
  ELSE ComputedAnd(StateEq(st, "s1", ctx), ctx)

(* a widget builder whose content is a derived signal: content = text()    *)
(* under rendering_ctx = c                                                 *)
Derived(c, r) ==
  [st |-> r.st, comp |-> Component(c, <<r.val>>), reads |-> r.reads,
   writes |-> {}, sub |-> << >>, exc |-> NoExc]

(* a fragment_builder without "store['fragment_components'][fid] = []" *)
FragmentBuilderKeep(kind, c, st) ==
  FragmentFunc(kind, c, StateValue(st, "s1", c))

(* fragment_builder: the scopes are set, the child list is reset, func()   *)
FragmentBuilder(kind, c, st) ==
  FragmentFunc(kind, c,
    StateValue([st EXCEPT !.fragment_components[c] = << >>], "s1", c))

(* a widget builder whose content callable raises when s1 is set *)
Boom(c, r) ==
  [st |-> r.st, comp |-> Component(c, <<r.val>>), reads |-> {"s1"},
   writes |-> {}, sub |-> << >>,
   exc |-> IF r.val # 0 THEN Exc(c, NoCid) ELSE NoExc]

(* the button builder that wraps its sl-button in a div *)
Wrapped(c, r) ==
  [st |-> r.st, comp |-> Component(WrapperId(c), <<r.val>>),
   reads |-> {"s2"}, writes |-> {}, sub |-> << >>, exc |-> NoExc]

Plain(r) ==
  [st |-> r.st, comp |-> r.comp, reads |-> r.reads, writes |-> r.writes,
   sub |-> << >>, exc |-> NoExc]

(* the loop's result before its first turn, and its items *)
NoOutput == [main |-> << >>, sidebar |-> << >>, log |-> << >>]
To(cids, target) == [i \in DOMAIN cids |-> [cid |-> cids[i], to |-> target]]

(* the widgets a page function calls, key being the navigation state:     *)
(* the first page is app.text(s2); the second page shows a text whose      *)
(* content callable raises (page) or raises itself before it calls a       *)
(* widget (pagex)                                                          *)
PageChildren(kind, key) ==
  IF key = 0 THEN <<"plain">>
  ELSE IF kind = "page" THEN <<BoomKind>> ELSE << >>

(* the content of a page: '\n'.join(htmls) *)
RECURSIVE Joined(_)
Joined(comps) ==
  IF comps = << >> THEN << >> ELSE Head(comps).html \o Joined(Tail(comps))

(* a page_builder that leaves the page's order and child lists in place *)
PageDoneKeep(c, o, f, r) ==
  [st |-> r.st,
   comp |-> Component(c, Joined(r.main)), reads |-> {"s1"}, writes |-> {},
   sub |-> r.log, nest |-> Nested(c, r.log, r.exc),
   exc |-> IF r.exc.raised THEN Exc(NoCid, r.exc.fctx) ELSE NoExc]

(* page_builder once the page function and the loop over store['order']    *)
(* gave r: "finally" puts the saved order o and child lists f back, and    *)
(* the outer "finally" resets rendering_ctx by the page's token            *)
PageDone(c, o, f, r) ==
  [st |-> [r.st EXCEPT !.order = o, !.fragment_components = f],
   comp |-> Component(c, Joined(r.main)), reads |-> {"s1"}, writes |-> {},
   sub |-> r.log, nest |-> Nested(c, r.log, r.exc),
   exc |-> IF r.exc.raised THEN Exc(CtxReset(CtxSet(NoCid, c).token),
                                    r.exc.fctx)
           ELSE NoExc]

(* p.entry_point() left the store s; the page function of pagex raises on  *)
(* the second page; otherwise the builders of store['order'] run           *)
PageLoop(kind, c, o, f, key, s) ==
  IF kind = "pagex" /\ key # 0
  THEN PageDone(c, o, f, [st |-> s, main |-> << >>, log |-> << >>,
                          exc |-> Exc(c, NoCid)])
  ELSE Only({PageDone(c, o, f, r) :
               r \in {RenderCids(s, To(s.order, "main"), static_builders,
                                 NoOutput)}})

(* key = self.state.value gave v; store['order'] = [] and                  *)
(* store['fragment_components'] = {}; p.entry_point()                      *)
PageFunc(kind, c, o, f, v) ==
  PageLoop(kind, c, o, f, v.val,
    CallWidgets([v.st EXCEPT !.order = << >>,
                             !.fragment_components = [x \in Cids |-> << >>]],
                NoCid, PageChildren(kind, v.val)))

(* PageRunner.run.page_builder, under rendering_ctx = c *)
PageBuilder(kind, c, st) ==
  PageFunc(kind, c, st.order, st.fragment_components,
           StateValue(st, "s1", c))

Build(kind, c, st) ==
  CASE kind = "frag" ->
         [st |-> [st EXCEPT !.fragment_components[c] = << >>],
          comp |-> Component(WrapperId(c), << >>),
          reads |-> {}, writes |-> {}, sub |-> << >>, exc |-> NoExc]
    [] kind \in FragKinds -> FragmentBuilder(kind, c, st)
    [] kind \in PageKinds -> PageBuilder(kind, c, st)
    [] kind = "dlg" ->
         Contained(c, << >>,
           RunChildren(st, st.fragment_components[c],
                       [html |-> << >>, log |-> << >>]))
    [] kind \in ListKinds ->
         Contained(c, IF kind = "listg" THEN <<GapMark>> ELSE << >>,
           RunChildren(st, static_fragment_components[c]
                             \o st.fragment_components[c],
                       [html |-> << >>, log |-> << >>]))
    [] kind = WrapKind -> Wrapped(c, StateValue(st, "s2", c))
    [] kind \in DerivedKinds -> Derived(c, ComputedValue(kind, st, c))
    [] kind = BoomKind -> Boom(c, StateValue(st, "s1", c))
    [] OTHER -> Plain(RunBuilder(kind, c, st))

(* one turn of the child loop: builder p.b gave r from st *)
ChildBuilt(st, pairs, acc, p, r) ==
  IF r.exc.raised
  THEN [st |-> r.st, html |-> << >>,
        log |-> Logged(acc.log, p.cid, p.b, r, st), exc |-> r.exc]
  ELSE RunChildren(r.st, Tail(pairs),
         [html |-> acc.html \o r.comp.html,
          log |-> Logged(acc.log, p.cid, p.b, r, st)])

RunChildren(st, pairs, acc) ==
  IF pairs = << >>
  THEN [st |-> st, html |-> acc.html, log |-> acc.log, exc |-> NoExc]
  ELSE Only({ChildBuilt(st, pairs, acc, Head(pairs), r) :
               r \in {Build(Head(pairs).b, Head(pairs).cid, st)}})

(* the loop "for cid in cids: builder = ...; if builder: builder()" of     *)
(* render_cids and of _get_dirty_rendered.  items pairs each cid with the *)
(* target list its component goes to; log keeps, for each builder run,    *)
(* the signals it read and wrote and the values it found.  A builder that *)
(* raises ends the loop and nothing is returned                           *)
(* one turn of the loop: builder b of the first item gave r from st *)
Rendered(st, items, sb, acc, b, r) ==
  IF r.exc.raised
  THEN [st |-> r.st, main |-> << >>, sidebar |-> << >>,
        log |-> Logged(acc.log, Head(items).cid, b, r, st), exc |-> r.exc]
  ELSE RenderCids(r.st, Tail(items), sb,
         [main    |-> IF Head(items).to = "main"
                      THEN Append(acc.main, r.comp) ELSE acc.main,
          sidebar |-> IF Head(items).to = "main"
                      THEN acc.sidebar ELSE Append(acc.sidebar, r.comp),
          log     |-> Logged(acc.log, Head(items).cid, b, r, st)])

RenderCids(st, items, sb, acc) ==
  IF items = << >> THEN [st |-> st, main |-> acc.main, sidebar |-> acc.sidebar,
                         log |-> acc.log, exc |-> NoExc]
  ELSE IF LookupBuilder(st, sb, Head(items).cid) = NoBuilder
  THEN RenderCids(st, Tail(items), sb, acc)
  ELSE Only({Rendered(st, items, sb, acc,
                      LookupBuilder(st, sb, Head(items).cid), r) :
               r \in {Build(LookupBuilder(st, sb, Head(items).cid),
                            Head(items).cid, st)}})

(* _render_all with the session's orders rendered before the static ones *)
RenderAllSessionFirst(st, sb, so, sso) ==
  RenderCids(st, To(st.order, "main") \o To(st.sidebar_order, "sidebar")
                 \o To(so, "main") \o To(sso, "sidebar"), sb, NoOutput)

(* App._render_all on the store record: static main, static sidebar,      *)
(* store['order'], store['sidebar_order']                                 *)
RenderAll(st, sb, so, sso) ==
  RenderCids(st, To(so, "main") \o To(sso, "sidebar") \o To(st.order, "main")
                 \o To(st.sidebar_order, "sidebar"), sb, NoOutput)

(* the orders in which "for cid in aff" can visit the set aff *)
Orders(S) ==
  {q \in [1 .. Cardinality(S) -> S] : \A i, j \in DOMAIN q : i # j => q[i] # q[j]}

(* a dirty render that follows only one of the dirty signals *)
DirtySetFirst(st) ==
  IF st.dirty_states = {} THEN {}
  ELSE st.tracker[CHOOSE s \in st.dirty_states : TRUE]

(* App._get_dirty_rendered: the ids subscribed to a dirty signal (aff) *)
DirtySet(st) ==
  UNION {get_dirty_components(st.tracker, s) : s \in st.dirty_states}

(* a dirty render that leaves store['dirty_states'] as it found it *)
GetDirtyRenderedKeep(st, sb, q) == RenderCids(st, To(q, "main"), sb, NoOutput)

(* a dirty render that empties store['dirty_states'] after its builders    *)
(* ran                                                                     *)
GetDirtyRenderedLate(st, sb, q) ==
  Only({[r EXCEPT !.st.dirty_states = {}] :
          r \in {RenderCids(st, To(q, "main"), sb, NoOutput)}})

(* App._get_dirty_rendered on the store record, visiting aff in order q *)
GetDirtyRendered(st, sb, q) ==
  RenderCids([st EXCEPT !.dirty_states = {}], To(q, "main"), sb, NoOutput)

(* an action callback run on the store record:                             *)
(*   toggle : s2.set(1 - s2.value)                                         *)
(*   peek   : reads s1.value, writes nothing, and shows a toast           *)
(*   save   : download_file(...) and balloons(), reads s1.value           *)
(*   notify : s2.set(1 - s2.value); toast(...); balloons()                 *)
(* a callback whose reads are made as if component 0 were rendering *)
RunActionRendering(act, st, ctx) ==
  IF act = "toggle"
  THEN LET r == StateValue(st, "s2", 0)
       IN  StateSet(r.st, "s2", 1 - r.val)
  ELSE StateValue(st, "s1", 0).st

(* ctx is the value of rendering_ctx while the callback runs               *)
RunAction(act, st, ctx) ==
  IF act \in {"toggle", NotifyAct}
  THEN LET r == StateValue(st, "s2", ctx)
       IN  StateSet(r.st, "s2", 1 - r.val)
  ELSE StateValue(st, "s1", ctx).st

(* an action lookup that falls back to a callback when it finds none *)
LookupActionDefault(st, sa, c) ==
  IF st.actions[c] # NoAction THEN st.actions[c]
  ELSE IF sa[c] # NoAction THEN sa[c] ELSE "toggle"

(* store['actions'].get(cid) or self.static_actions.get(cid) *)
LookupAction(st, sa, c) ==
  IF st.actions[c] # NoAction THEN st.actions[c] ELSE sa[c]

(* ------------------------- the page's script -------------------------- *)
MaxClicks == MaxList + 1    \* clicks followed on one loaded page

(* the script block of HTML_TEMPLATE in ws mode, as it leaves the page      *)
(* when it has run: _wsReady = false, _actionQueue = [], _ws connecting.    *)
(* sent lists the payloads given to _ws.send, triggered the calls of        *)
(* sendAction, opened tells that onopen ran, and dropped is the queue the   *)
(* previous page left behind when it was reloaded                           *)
NewPage ==
  [ws |-> "connecting", wsReady |-> FALSE, actionQueue |-> << >>,
   sent |-> << >>, triggered |-> << >>, opened |-> FALSE, dropped |-> << >>]

(* no broadcast thread has run: todo are the session ids left to visit,    *)
(* snap the ids get_active_sessions returned, excl the excluded id, log    *)
(* what happened at each id (reg: the session's entry at that moment)      *)
NoCast ==
  [busy |-> FALSE, todo |-> << >>, snap |-> {}, excl |-> NoneSid,
   log |-> << >>, msgs |-> << >>]

(* ------------------------------- tokens -------------------------------- *)
(* a request that carries no token (None or "") *)
NoToken == << >>

(* secrets.token_urlsafe(32), and a string that is not the secret *)
csrf_secret == "secret"
Guess == "guess"

(* the value of VIOLIT_NATIVE_TOKEN when it is set *)
NativeToken == <<"native", csrf_secret>>

(* App._generate_csrf_token: the HMAC-SHA256 of "sid:secret" under the      *)
(* secret, a value that determines the session id and the secret           *)
generate_csrf_token(session_id) ==
  IF session_id = NoneSid THEN NoToken
  ELSE <<"hmac", session_id, csrf_secret>>

(* a check that takes every token that is present for the right one *)
verify_csrf_token_any(app, session_id, token) ==
  IF ~app.csrf_enabled THEN TRUE
  ELSE IF session_id = NoneSid \/ token = NoToken THEN FALSE
  ELSE TRUE

(* App._verify_csrf_token *)
verify_csrf_token(app, session_id, token) ==
  IF ~app.csrf_enabled THEN TRUE
  ELSE IF session_id = NoneSid \/ token = NoToken THEN FALSE
  ELSE generate_csrf_token(session_id) = token

(* the tokens a client may send: none, the token of either session, a      *)
(* forged one; none, the native token, a forged one                       *)
CsrfSent ==
  {NoToken, <<"hmac", "A", Guess>>} \cup {generate_csrf_token(s) : s \in Sids}
NativeSent == {NoToken, NativeToken, <<"native", Guess>>}

(* no request has been sent *)
NoReq ==
  [kind |-> "none", task |-> "main", cid |-> NoCid,
   csrf |-> NoToken, native |-> NoToken]

(* App.__init__ with neither VIOLIT_NATIVE_TOKEN nor VIOLIT_NATIVE_MODE in  *)
(* the environment                                                        *)
NewApp == [csrf_enabled |-> TRUE, native_token |-> NoToken, req |-> NoReq]

(* ------------------------------ history -------------------------------- *)
RECURSIVE LastOf(_, _, _)
LastOf(lr, log, i) ==
  IF i > Len(log) THEN lr
  ELSE LastOf([lr EXCEPT ![log[i].cid] = log[i].reads], log, i + 1)

LogPairs(log) ==
  {p \in Names \X Cids :
     \E i \in DOMAIN log : log[i].cid = p[2] /\ p[1] \in log[i].reads}

NoReads == [c \in Cids |-> {}]

BaseRet ==
  [op |-> "init", task |-> "main", sid |-> NoneSid, name |-> "s1", val |-> 0,
   comps |-> << >>, main |-> << >>, sidebar |-> << >>, log |-> << >>,
   created |-> FALSE, idle |-> -1, owed |-> {}, wrote |-> {}, again |-> FALSE,
   cid |-> NoCid, stale |-> Unset, base |-> 0, raised |-> FALSE,
   kind |-> NoBuilder, act |-> NoAction, frag |-> NoCid, layout |-> "main",
   ran |-> << >>, msgs |-> << >>, body |-> << >>]

(* what every operation records about the lookup it starts with *)
Met(t, op) ==
  LET sid == session_ctx[t]
  IN  [BaseRet EXCEPT !.op = op, !.task = t, !.sid = sid,
         !.created = ~Contains(GLOBAL_STORE, sid, now),
         !.idle = IF lastAccess[sid] = -1 THEN -1 ELSE now - lastAccess[sid],
         !.base = BaseCount(GLOBAL_STORE, now)]

(* the store record an operation of task t works on, and the cache *)
Cache(t) == get_session_store(GLOBAL_STORE, SessionCtxGet(session_ctx, t), now)
Store(t) == Cache(t)[SessionCtxGet(session_ctx, t)].data
(* signal values kept on the shared State object, not in the store *)
PutShared(t, st) ==
  [k \in Keys |->
     IF Cache(t)[k].present
     THEN [Cache(t)[k] EXCEPT !.data.states = st.states]
     ELSE Cache(t)[k]]

(* store[...] = ...: the dict held by the cache is changed in place *)
Put(t, st) == [Cache(t) EXCEPT ![SessionCtxGet(session_ctx, t)].data = st]

Fresh(t) == session_ctx[t] \in Sids /\ ~Contains(GLOBAL_STORE, session_ctx[t], now)
EverReadNow(t) == IF Fresh(t) THEN {} ELSE everRead[session_ctx[t]]
LastReadsNow(t) == IF Fresh(t) THEN NoReads ELSE lastReads[session_ctx[t]]
OwedNow(t) == IF Fresh(t) THEN {} ELSE owed[session_ctx[t]]
WroteNow(t) == IF Fresh(t) THEN {} ELSE wrote[session_ctx[t]]
WrittenNow(t) == IF Fresh(t) THEN {} ELSE written[session_ctx[t]]
LogWrites(log) == UNION {log[i].writes : i \in DOMAIN log}

Serving(t) ==
  /\ phase = "serving" /\ pc.at = "idle"
  /\ t # "main" /\ session_ctx[t] \in Sids /\ t \notin failed

(* the ambient scopes of task t when the render of its request ended with  *)
(* exc: a builder that raises skips the reset calls after the point of the *)
(* exception, and the exception leaves mw before session_ctx.reset(t)      *)
AfterRequest(t, exc) ==
  /\ rendering_ctx' = [rendering_ctx EXCEPT
                         ![t] = IF exc.raised THEN exc.rctx ELSE @]
  /\ fragment_ctx' = [fragment_ctx EXCEPT
                        ![t] = IF exc.raised THEN exc.fctx ELSE @]
  /\ failed' = IF exc.raised THEN failed \cup {t} ELSE failed
  /\ UNCHANGED session_ctx

(* the same for the ws handler: the exception ends its loop, and           *)
(* "finally: session_ctx.reset(t)" runs                                    *)
AfterMessage(t, exc) ==
  /\ rendering_ctx' = [rendering_ctx EXCEPT
                         ![t] = IF exc.raised THEN exc.rctx ELSE @]
  /\ fragment_ctx' = [fragment_ctx EXCEPT
                        ![t] = IF exc.raised THEN exc.fctx ELSE @]
  /\ failed' = IF exc.raised THEN failed \cup {t} ELSE failed
  /\ session_ctx' = IF exc.raised THEN [session_ctx EXCEPT ![t] = NoneSid]
                    ELSE session_ctx
  /\ chan' = IF exc.raised THEN [chan EXCEPT ![t] = "none"] ELSE chan

(* the ids a render hands out stay below MaxCount *)
InBound(st) == st.component_count <= MaxCount

Touch(t) == lastAccess' = [lastAccess EXCEPT ![session_ctx[t]] = now]

IdlePc == [at |-> "idle", task |-> "main", base |-> 0, made |-> FALSE]

(* ------------------------------- actions ------------------------------- *)
Init ==
  /\ now = 0
  /\ phase = "static"
  /\ session_ctx = [t \in Tasks |-> NoneSid]
  /\ GLOBAL_STORE = [k \in Keys |-> AbsentEntry]
  /\ static_builders = [c \in Cids |-> NoBuilder]
  /\ static_order = << >>
  /\ static_sidebar_order = << >>
  /\ pc = IdlePc
  /\ ret = BaseRet
  /\ lastAccess = [k \in Keys |-> -1]
  /\ everRead = [s \in Sids |-> {}]
  /\ lastReads = [s \in Sids |-> NoReads]
  /\ owed = [s \in Sids |-> {}]
  /\ wrote = [s \in Sids |-> {}]
  /\ written = [s \in Sids |-> {}]
  /\ staticIds = {}
  /\ sessionIds = {}
  /\ static_actions = [c \in Cids |-> NoAction]
  /\ static_fragment_components = [c \in Cids |-> << >>]
  /\ registered = "undefined"
  /\ sockets = [s \in Sids |-> NoConn]
  /\ chan = [t \in Tasks |-> "none"]
  /\ rendering_ctx = [t \in Tasks |-> NoCid]
  /\ fragment_ctx = [t \in Tasks |-> NoCid]
  /\ failed = {}
  /\ inbox = [t \in Tasks |-> NoCid]
  /\ page = NewPage
  /\ cast = NoCast
  /\ conf = NewApp

(* the timer advances *)
Tick ==
  /\ phase = "serving"
  /\ now + TickStep <= MaxTime
  /\ now' = now + TickStep
  /\ ret' = [BaseRet EXCEPT !.op = "tick"]
  /\ UNCHANGED <<phase, session_ctx, GLOBAL_STORE, regs, pc, lastAccess,
                 hist, ids>>
  /\ UNCHANGED <<ext, amb, inbox, page, cast, conf>>

(* maxsize sessions other than A and B make their first request, one after *)
(* another: each get_session_store call does GLOBAL_STORE[sid] = {...},    *)
(* and TTLCache.__setitem__ on a full cache first pops the entry that was  *)
(* set longest ago.  After maxsize such calls the cache holds the stores   *)
(* of these sessions and none of the entries it held before                *)
Flood ==
  /\ phase = "serving" /\ pc.at = "idle"
  /\ \E k \in Keys : GLOBAL_STORE[k].present
  /\ GLOBAL_STORE' = [k \in Keys |-> AbsentEntry]
  /\ ret' = [BaseRet EXCEPT !.op = "flood", !.val = maxsize]
  /\ UNCHANGED <<now, phase, session_ctx, regs, pc, lastAccess, hist, ids>>
  /\ UNCHANGED <<ext, amb, inbox, page, cast, conf>>

(* app.run(): the script body is over, requests are served *)
StartServer ==
  /\ phase = "static" /\ pc.at = "idle"
  /\ phase' = "serving"
  /\ ret' = [BaseRet EXCEPT !.op = "start"]
  /\ UNCHANGED <<now, session_ctx, GLOBAL_STORE, regs, pc, lastAccess,
                 hist, ids>>
  /\ UNCHANGED <<ext, amb, inbox, page, cast, conf>>

(* mw / ws: t = session_ctx.set(sid) *)
Enter(t, sid) ==
  /\ phase = "serving" /\ pc.at = "idle"
  /\ t # "main" /\ session_ctx[t] = NoneSid /\ t \notin failed
  /\ session_ctx' = [session_ctx EXCEPT ![t] = sid]
  /\ ret' = [BaseRet EXCEPT !.op = "enter"]
  /\ UNCHANGED <<now, phase, GLOBAL_STORE, regs, pc, lastAccess, hist, ids>>
  /\ UNCHANGED <<ext, amb, inbox, page, cast, conf>>

(* mw / ws: session_ctx.reset(t) *)
Exit(t) ==
  /\ phase = "serving" /\ pc.at = "idle"
  /\ t # "main" /\ session_ctx[t] # NoneSid /\ chan[t] = "none"
  /\ t \notin failed
  /\ session_ctx' = [session_ctx EXCEPT ![t] = NoneSid]
  /\ ret' = [BaseRet EXCEPT !.op = "exit"]
  /\ UNCHANGED <<now, phase, GLOBAL_STORE, regs, pc, lastAccess, hist, ids>>
  /\ UNCHANGED <<ext, amb, inbox, page, cast, conf>>

(* a widget call: cid = self._get_next_cid(prefix);                        *)
(* self._register_component(cid, builder), under layout target l_ctx      *)
Widget(t, kind, l_ctx) ==
  /\ pc.at = "idle"
  /\ \/ phase = "static" /\ t = "main"
     \/ Serving(t)
  /\ Store(t).component_count < MaxCount
  /\ LET sid == SessionCtxGet(session_ctx, t)
         g == GetNextCid(Store(t))
         r == RegisterComponent(g.st, sid, g.cid, kind, l_ctx, static_builders,
                                static_order, static_sidebar_order)
     IN  /\ GLOBAL_STORE' = Put(t, r.st)
         /\ static_builders' = r.sb
         /\ static_order' = r.so
         /\ static_sidebar_order' = r.sso
         /\ ret' = [Met(t, "widget") EXCEPT !.cid = g.cid]
         /\ staticIds' = IF session_ctx[t] = NoneSid THEN staticIds \cup {g.cid}
                         ELSE staticIds
         /\ sessionIds' = IF session_ctx[t] = NoneSid THEN sessionIds
                          ELSE sessionIds \cup {g.cid}
  /\ Touch(t)
  /\ IF session_ctx[t] \in Sids
     THEN /\ everRead' = [everRead EXCEPT ![session_ctx[t]] = EverReadNow(t)]
          /\ lastReads' = [lastReads EXCEPT ![session_ctx[t]] = LastReadsNow(t)]
          /\ owed' = [owed EXCEPT ![session_ctx[t]] = OwedNow(t)]
          /\ wrote' = [wrote EXCEPT ![session_ctx[t]] = WroteNow(t)]
          /\ written' = [written EXCEPT ![session_ctx[t]] = WrittenNow(t)]
     ELSE UNCHANGED hist
  /\ UNCHANGED <<now, phase, session_ctx, pc>>
  /\ UNCHANGED <<ext, amb, inbox, page, cast, conf>>

(* an action callback writes a signal: State.set(v) *)
Write(t, n, v) ==
  /\ Serving(t)
  /\ GLOBAL_STORE' = Put(t, StateSet(Store(t), n, v))
  /\ ret' = [Met(t, "write") EXCEPT !.name = n, !.val = v]
  /\ Touch(t)
  /\ everRead' = [everRead EXCEPT ![session_ctx[t]] = EverReadNow(t)]
  /\ lastReads' = [lastReads EXCEPT ![session_ctx[t]] = LastReadsNow(t)]
  /\ owed' = [owed EXCEPT ![session_ctx[t]] =
                OwedNow(t) \cup {c \in Cids : <<n, c>> \in EverReadNow(t)}]
  /\ wrote' = [wrote EXCEPT ![session_ctx[t]] = WroteNow(t) \cup {n}]
  /\ written' = [written EXCEPT ![session_ctx[t]] = WrittenNow(t) \cup {n}]
  /\ UNCHANGED <<now, phase, session_ctx, regs, pc, ids>>
  /\ UNCHANGED <<ext, amb, inbox, page, cast, conf>>

(* an action callback reads a signal: State.value *)
Read(t, n) ==
  /\ Serving(t)
  /\ LET r == StateValue(Store(t), n, rendering_ctx[t])
     IN  /\ GLOBAL_STORE' = Put(t, r.st)
         /\ ret' = [Met(t, "read") EXCEPT !.name = n, !.val = r.val,
                      !.stale = IF GLOBAL_STORE[session_ctx[t]].present
                                THEN GLOBAL_STORE[session_ctx[t]].data.states[n]
                                ELSE Unset]
  /\ Touch(t)
  /\ everRead' = [everRead EXCEPT ![session_ctx[t]] = EverReadNow(t)]
  /\ lastReads' = [lastReads EXCEPT ![session_ctx[t]] = LastReadsNow(t)]
  /\ owed' = [owed EXCEPT ![session_ctx[t]] = OwedNow(t)]
  /\ wrote' = [wrote EXCEPT ![session_ctx[t]] = WroteNow(t)]
  /\ written' = [written EXCEPT ![session_ctx[t]] = WrittenNow(t)]
  /\ UNCHANGED <<now, phase, session_ctx, regs, pc, ids>>
  /\ UNCHANGED <<ext, amb, inbox, page, cast, conf>>

(* GET /: main_c, sidebar_c = self._render_all() *)
FullRender(t) ==
  /\ Serving(t)
  /\ LET r == RenderAll(Store(t), static_builders, static_order,
                        static_sidebar_order)
     IN  /\ InBound(r.st)
         /\ GLOBAL_STORE' = Put(t, r.st)
         /\ ret' = [Met(t, "full") EXCEPT !.main = r.main,
                      !.sidebar = r.sidebar, !.log = r.log,
                      !.raised = r.exc.raised]
         /\ AfterRequest(t, r.exc)
         /\ everRead' = [everRead EXCEPT ![session_ctx[t]] =
                           EverReadNow(t) \cup LogPairs(r.log)]
         /\ lastReads' = [lastReads EXCEPT ![session_ctx[t]] =
                            LastOf(LastReadsNow(t), r.log, 1)]
         /\ owed' = [owed EXCEPT ![session_ctx[t]] =
                       OwedNow(t) \cup
                       {c \in Cids : \E n \in LogWrites(r.log) :
                                        <<n, c>> \in EverReadNow(t)}]
         /\ wrote' = [wrote EXCEPT ![session_ctx[t]] =
                        WroteNow(t) \cup LogWrites(r.log)]
         /\ written' = [written EXCEPT ![session_ctx[t]] =
                          WrittenNow(t) \cup LogWrites(r.log)]
  /\ Touch(t)
  /\ UNCHANGED <<now, phase, regs, pc, ids, ext, inbox, page, cast, conf>>

(* dirty = self._get_dirty_rendered() *)
DirtyRender(t) ==
  /\ Serving(t)
  /\ \E q \in Orders(DirtySet(Store(t))) :
       LET r == GetDirtyRendered(Store(t), static_builders, q)
       IN  /\ InBound(r.st)
           /\ AfterRequest(t, r.exc)
           /\ GLOBAL_STORE' = Put(t, r.st)
           /\ ret' = [Met(t, "dirty") EXCEPT !.comps = r.main, !.log = r.log,
                        !.raised = r.exc.raised,
                        !.owed = OwedNow(t), !.wrote = WroteNow(t),
                        !.again = (ret.op = "dirty" /\ ret.sid = session_ctx[t]
                                   /\ ret.comps # << >>)]
           /\ everRead' = [everRead EXCEPT ![session_ctx[t]] =
                             EverReadNow(t) \cup LogPairs(r.log)]
           /\ lastReads' = [lastReads EXCEPT ![session_ctx[t]] =
                              LastOf(LastReadsNow(t), r.log, 1)]
           /\ owed' = [owed EXCEPT ![session_ctx[t]] =
                         {c \in Cids : \E n \in LogWrites(r.log) :
                                          <<n, c>> \in EverReadNow(t)}]
           /\ wrote' = [wrote EXCEPT ![session_ctx[t]] = LogWrites(r.log)]
           /\ written' = [written EXCEPT ![session_ctx[t]] =
                            WrittenNow(t) \cup LogWrites(r.log)]
  /\ Touch(t)
  /\ UNCHANGED <<now, phase, regs, pc, ids, ext, inbox, page, cast, conf>>

(* --------------- get_session_store, one cache access a step ------------ *)
(* sid = session_ctx.get() *)
LookupBegin(t) ==
  /\ pc.at = "idle"
  /\ \/ phase = "static" /\ t = "main"
     \/ Serving(t)
  /\ pc' = [IdlePc EXCEPT !.at = "test", !.task = t]
  /\ ret' = [BaseRet EXCEPT !.op = "begin"]
  /\ UNCHANGED <<now, phase, session_ctx, GLOBAL_STORE, regs, lastAccess,
                 hist, ids>>
  /\ UNCHANGED <<ext, amb, inbox, page, cast, conf>>

(* if sid not in GLOBAL_STORE: *)
LookupTest ==
  /\ pc.at = "test"
  /\ pc' = [pc EXCEPT !.at =
              IF ~Contains(GLOBAL_STORE, SessionCtxGet(session_ctx, pc.task), now)
              THEN "base" ELSE "read"]
  /\ lastAccess' = [lastAccess EXCEPT ![session_ctx[pc.task]] = now]
  /\ ret' = [BaseRet EXCEPT !.op = "test"]
  /\ UNCHANGED <<now, phase, session_ctx, GLOBAL_STORE, regs, hist, ids>>
  /\ UNCHANGED <<ext, amb, inbox, page, cast, conf>>

(* if None in GLOBAL_STORE: *)
LookupBase ==
  /\ pc.at = "base"
  /\ pc' = [pc EXCEPT !.at = IF Contains(GLOBAL_STORE, NoneSid, now)
                             THEN "baseget" ELSE "create"]
  /\ ret' = [BaseRet EXCEPT !.op = "base"]
  /\ UNCHANGED <<now, phase, session_ctx, GLOBAL_STORE, regs, lastAccess,
                 hist, ids>>
  /\ UNCHANGED <<ext, amb, inbox, page, cast, conf>>

(* base_count = GLOBAL_STORE[None].get('component_count', 0) *)
LookupBaseGet ==
  /\ pc.at = "baseget"
  /\ pc' = IF Contains(GLOBAL_STORE, NoneSid, now)
           THEN [pc EXCEPT !.at = "create",
                           !.base = GLOBAL_STORE[NoneSid].data.component_count]
           ELSE [pc EXCEPT !.at = "raised"]
  /\ ret' = [BaseRet EXCEPT !.op = "baseget"]
  /\ UNCHANGED <<now, phase, session_ctx, GLOBAL_STORE, regs, lastAccess,
                 hist, ids>>
  /\ UNCHANGED <<ext, amb, inbox, page, cast, conf>>

(* GLOBAL_STORE[sid] = {...} *)
LookupCreate ==
  /\ pc.at = "create"
  /\ LET sid == SessionCtxGet(session_ctx, pc.task)
     IN  GLOBAL_STORE' = SetItem(GLOBAL_STORE, sid, NewStore(pc.base), now)
  /\ pc' = [pc EXCEPT !.at = "read", !.made = TRUE]
  /\ IF session_ctx[pc.task] \in Sids
     THEN /\ everRead' = [everRead EXCEPT ![session_ctx[pc.task]] = {}]
          /\ lastReads' = [lastReads EXCEPT ![session_ctx[pc.task]] = NoReads]
          /\ owed' = [owed EXCEPT ![session_ctx[pc.task]] = {}]
          /\ wrote' = [wrote EXCEPT ![session_ctx[pc.task]] = {}]
          /\ written' = [written EXCEPT ![session_ctx[pc.task]] = {}]
     ELSE UNCHANGED hist
  /\ lastAccess' = [lastAccess EXCEPT ![session_ctx[pc.task]] = now]
  /\ ret' = [BaseRet EXCEPT !.op = "create"]
  /\ UNCHANGED <<now, phase, session_ctx, regs, ids>>
  /\ UNCHANGED <<ext, amb, inbox, page, cast, conf>>

(* return GLOBAL_STORE[sid] *)
LookupRead ==
  /\ pc.at = "read"
  /\ IF Contains(GLOBAL_STORE, SessionCtxGet(session_ctx, pc.task), now)
     THEN /\ pc' = IdlePc
          /\ ret' = [BaseRet EXCEPT !.op = "lookup", !.task = pc.task,
                       !.sid = session_ctx[pc.task], !.created = pc.made,
                       !.base = pc.base]
     ELSE /\ pc' = [pc EXCEPT !.at = "raised"]
          /\ ret' = [BaseRet EXCEPT !.op = "keyerror"]
  /\ lastAccess' = [lastAccess EXCEPT ![session_ctx[pc.task]] = now]
  /\ UNCHANGED <<now, phase, session_ctx, GLOBAL_STORE, regs, hist, ids>>
  /\ UNCHANGED <<ext, amb, inbox, page, cast, conf>>

(* the KeyError of TTLCache.__getitem__ leaves get_session_store *)
LookupRaise ==
  /\ pc.at = "raised"
  /\ pc' = IdlePc
  /\ ret' = [BaseRet EXCEPT !.op = "lookup", !.task = pc.task,
               !.sid = session_ctx[pc.task], !.created = pc.made,
               !.base = pc.base, !.raised = TRUE]
  /\ UNCHANGED <<now, phase, session_ctx, GLOBAL_STORE, regs, lastAccess,
                 hist, ids>>
  /\ UNCHANGED <<ext, amb, inbox, page, cast, conf>>

(* ------------------- registration in every scope ----------------------- *)
Registering(t) ==
  /\ pc.at = "idle"
  /\ \/ phase = "static" /\ t = "main"
     \/ Serving(t)

(* the history of task t's session, kept or reset with its store *)
KeepHist(t) ==
  IF session_ctx[t] \in Sids
  THEN /\ everRead' = [everRead EXCEPT ![session_ctx[t]] = EverReadNow(t)]
       /\ lastReads' = [lastReads EXCEPT ![session_ctx[t]] = LastReadsNow(t)]
       /\ owed' = [owed EXCEPT ![session_ctx[t]] = OwedNow(t)]
       /\ wrote' = [wrote EXCEPT ![session_ctx[t]] = WroteNow(t)]
       /\ written' = [written EXCEPT ![session_ctx[t]] = WrittenNow(t)]
  ELSE UNCHANGED hist

(* no list of the registration result r is longer than MaxList *)
Fits(r) ==
  /\ Len(r.so) <= MaxList /\ Len(r.sso) <= MaxList
  /\ Len(r.st.order) <= MaxList /\ Len(r.st.sidebar_order) <= MaxList
  /\ \A c \in Cids : /\ Len(r.sfc[c]) <= MaxList
                      /\ Len(r.st.fragment_components[c]) <= MaxList

(* the store and the static registry after a _register_component call *)
ApplyReg(t, r) ==
  /\ GLOBAL_STORE' = Put(t, r.st)
  /\ static_builders' = r.sb
  /\ static_order' = r.so
  /\ static_sidebar_order' = r.sso
  /\ static_actions' = r.sa
  /\ static_fragment_components' = r.sfc

(* a widget call inside a container block or fragment:                     *)
(* cid = self._get_next_cid(prefix);                                       *)
(* self._register_component(cid, builder, action) with fragment_ctx = frag *)
WidgetIn(t, kind, act, frag, l_ctx) ==
  /\ Registering(t)
  /\ Store(t).component_count < MaxCount
  /\ LET sid == SessionCtxGet(session_ctx, t)
         g == GetNextCid(Store(t))
     IN  /\ Fits(RegisterFull(g.st, Static, sid, g.cid, kind, act,
                               frag, l_ctx))
         /\ ApplyReg(t, RegisterFull(g.st, Static, sid, g.cid, kind, act,
                                     frag, l_ctx))
         /\ ret' = [Met(t, "widget") EXCEPT !.cid = g.cid, !.kind = kind,
                      !.act = act, !.frag = frag, !.layout = l_ctx]
         /\ staticIds' = IF session_ctx[t] = NoneSid THEN staticIds \cup {g.cid}
                         ELSE staticIds
         /\ sessionIds' = IF session_ctx[t] = NoneSid THEN sessionIds
                          ELSE sessionIds \cup {g.cid}
  /\ Touch(t)
  /\ KeepHist(t)
  /\ UNCHANGED <<now, phase, session_ctx, pc, registered, sockets, chan, amb,
                 inbox, page, cast, conf>>

(* a component with an id of its own: list_container(id=...).__enter__ or  *)
(* the end of dialog.open_dialog: self._register_component(cid, builder)   *)
RegisterNamed(t, cid, kind, frag, l_ctx) ==
  /\ Registering(t)
  /\ cid # frag                    \* registered in an enclosing scope
  /\ LET sid == SessionCtxGet(session_ctx, t)
     IN  /\ Fits(RegisterFull(Store(t), Static, sid, cid, kind, NoAction,
                               frag, l_ctx))
         /\ ApplyReg(t, RegisterFull(Store(t), Static, sid, cid, kind,
                                     NoAction, frag, l_ctx))
         /\ ret' = [Met(t, "named") EXCEPT !.cid = cid, !.kind = kind,
                      !.frag = frag, !.layout = l_ctx]
  /\ Touch(t)
  /\ KeepHist(t)
  /\ UNCHANGED <<now, phase, session_ctx, pc, ids, registered, sockets, chan,
                 amb, inbox, page, cast, conf>>

(* @app.fragment on a module-level function: static_builders[fid] =        *)
(* fragment_builder, registered = [False]                                  *)
Fragment(kind) ==
  /\ phase = "static" /\ pc.at = "idle"
  /\ registered = "undefined"
  /\ registered' = "no"
  /\ static_builders' = [static_builders EXCEPT ![FragId] = kind]
  /\ ret' = [BaseRet EXCEPT !.op = "fragment"]
  /\ UNCHANGED <<now, phase, session_ctx, GLOBAL_STORE, static_order,
                 static_sidebar_order, pc, lastAccess, hist, ids,
                 static_actions, static_fragment_components, sockets, chan,
                 amb, inbox, page, cast, conf>>

(* a call of the fragment's wrapper(), in the script body or in a session *)
Wrapper(t) ==
  /\ Registering(t)
  /\ registered # "undefined"
  /\ LET sid == SessionCtxGet(session_ctx, t)
         base == [BaseRet EXCEPT !.op = "wrapper", !.task = t, !.sid = sid,
                                 !.cid = FragId]
     IN  IF registered = "yes"
         THEN /\ ret' = base
              /\ UNCHANGED <<GLOBAL_STORE, regs, lastAccess, hist, registered,
                             static_actions, static_fragment_components>>
         ELSE /\ registered' = "yes"
              /\ IF sid = NoneSid
                 THEN /\ static_order' = AppendNew(static_order, FragId)
                      /\ ret' = base
                      /\ UNCHANGED <<GLOBAL_STORE, static_builders,
                                     static_sidebar_order, lastAccess, hist,
                                     static_actions,
                                     static_fragment_components>>
                 ELSE /\ ApplyReg(t, RegisterFull(Store(t), Static, sid,
                                     FragId, static_builders[FragId],
                                     NoAction, NoCid, "main"))
                      /\ ret' = [Met(t, "wrapper") EXCEPT !.cid = FragId,
                                   !.kind = static_builders[FragId]]
                      /\ Touch(t)
                      /\ KeepHist(t)
  /\ UNCHANGED <<now, phase, session_ctx, pc, ids, sockets, chan, amb,
                 inbox, page, cast, conf>>

(* --------------------------- action dispatch --------------------------- *)
(* the history of task t's session after an action callback wrote the      *)
(* signals `names` and a dirty render with the log `log` followed          *)
HistAfter(t, names, log) ==
  /\ everRead' = [everRead EXCEPT ![session_ctx[t]] =
                    EverReadNow(t) \cup LogPairs(log)]
  /\ lastReads' = [lastReads EXCEPT ![session_ctx[t]] =
                     LastOf(LastReadsNow(t), log, 1)]
  /\ owed' = [owed EXCEPT ![session_ctx[t]] =
                {c \in Cids : \E n \in LogWrites(log) :
                                 <<n, c>> \in EverReadNow(t)}]
  /\ wrote' = [wrote EXCEPT ![session_ctx[t]] = LogWrites(log)]
  /\ written' = [written EXCEPT ![session_ctx[t]] =
                   WrittenNow(t) \cup names \cup LogWrites(log)]

(* the signals an action callback sets *)
ActWrites(act) == IF act \in {"toggle", NotifyAct} THEN {"s2"} ELSE {}

(* LiteEngine.wrap_oob: every component marked hx-swap-oob="true" *)
wrap_oob(components) ==
  [i \in DOMAIN components |->
     [id |-> components[i].id, html |-> components[i].html, oob |-> TRUE]]

(* the clicked component and the other ones of a dirty list *)
Others(dirty, cid) == SelectSeq(dirty, LAMBDA c : c.id # cid)
Clicked(dirty, cid) == SelectSeq(dirty, LAMBDA c : c.id = cid)

(* the ids of the two injector blocks of a stateless response *)
ToastInjector == 2 * ListId + 2         \* <div id="toast-injector" ...>
EffectsInjector == 2 * ListId + 3       \* <div id="effects-injector" ...>

(* what an action callback queues in stateless mode: toast(), balloons()   *)
(* and snow() go through _enqueue_eval to store['toasts'] and              *)
(* store['effects']; download_file appends its script to                   *)
(* store['eval_queue'] in either mode                                      *)
LiteQueued(act) ==
  CASE act = "peek" -> [toasts |-> <<"toast">>, effects |-> << >>,
                        evals |-> << >>]
    [] act = "save" -> [toasts |-> <<"toast">>, effects |-> <<"balloons">>,
                        evals |-> <<"download">>]
    [] act = NotifyAct -> [toasts |-> <<"toast">>,
                           effects |-> <<"balloons">>, evals |-> << >>]
    [] OTHER -> [toasts |-> << >>, effects |-> << >>, evals |-> << >>]

(* store['eval_queue'] = []; act(): the store the dirty render starts from *)
ActLite(act, st, ctx) ==
  LET r == RunAction(act, [st EXCEPT !.eval_queue = << >>], ctx)
  IN  [r EXCEPT !.toasts = @ \o LiteQueued(act).toasts,
                !.effects = @ \o LiteQueued(act).effects,
                !.eval_queue = @ \o LiteQueued(act).evals]

(* the injector blocks appended for the queues of st *)
Injectors(st) ==
  (IF st.toasts # << >>
   THEN <<[id |-> ToastInjector, html |-> st.toasts, oob |-> TRUE]>>
   ELSE << >>)
  \o (IF st.effects # << >>
      THEN <<[id |-> EffectsInjector, html |-> st.effects, oob |-> TRUE]>>
      ELSE << >>)

(* store['toasts'] = [] and store['effects'] = [] after their injectors *)
Delivered(st) == [st EXCEPT !.toasts = << >>, !.effects = << >>]

(* POST /action/{cid}, the token check passed *)
Post(t, cid) ==
  /\ Serving(t) /\ chan[t] = "none"
  /\ LET store == Store(t)
         act == LookupAction(store, static_actions, cid)
     IN  IF act = NoAction
         THEN /\ GLOBAL_STORE' = Put(t, store)
              /\ ret' = [Met(t, "post") EXCEPT !.cid = cid]
              /\ KeepHist(t)
              /\ UNCHANGED <<session_ctx, amb>>
         ELSE \E s0 \in {ActLite(act, store, rendering_ctx[t])} :
              \E q \in Orders(DirtySet(s0)) :
              \E d \in {GetDirtyRendered(s0, static_builders, q)} :
              \E b \in {LookupBuilder(d.st, static_builders, cid)} :
              \E r \in {Build(b, cid, d.st)} :
                LET hit == Clicked(d.main, cid)
                    again == hit = << >> /\ b # NoBuilder /\ ~d.exc.raised
                    log == IF again
                           THEN Append(d.log \o r.sub,
                                  [cid |-> cid, kind |-> b, reads |-> r.reads,
                                   writes |-> r.writes, seen |-> d.st.states])
                           ELSE d.log
                    first == IF again THEN <<r.comp>>
                             ELSE IF hit # << >> THEN <<hit[Len(hit)]>>
                             ELSE << >>
                    last == IF again THEN r.st ELSE d.st
                    exc == IF again THEN r.exc ELSE d.exc
                IN  /\ InBound(last)
                    /\ AfterRequest(t, exc)
                    /\ GLOBAL_STORE' = Put(t, IF exc.raised THEN last
                                              ELSE Delivered(last))
                    /\ ret' = [Met(t, "post") EXCEPT !.cid = cid,
                                 !.act = act, !.ran = <<act>>,
                                 !.comps = d.main, !.log = log,
                                 !.raised = exc.raised,
                                 !.body =
                                   IF exc.raised THEN << >>
                                   ELSE [i \in DOMAIN first |->
                                           [id |-> first[i].id,
                                            html |-> first[i].html,
                                            oob |-> FALSE]]
                                        \o wrap_oob(Others(d.main, cid))
                                        \o Injectors(last)]
                    /\ HistAfter(t, ActWrites(act), log)
  /\ Touch(t)
  /\ UNCHANGED <<now, phase, regs, pc, ids, ext, inbox, page, cast, conf>>

(* /ws: ws.accept(); t = session_ctx.set(sid); sockets[sid] = ws *)
WsConnect(t, sid) ==
  /\ phase = "serving" /\ pc.at = "idle"
  /\ t # "main" /\ session_ctx[t] = NoneSid /\ chan[t] = "none"
  /\ t \notin failed
  /\ session_ctx' = [session_ctx EXCEPT ![t] = sid]
  /\ sockets' = [sockets EXCEPT ![sid] = t]
  /\ chan' = [chan EXCEPT ![t] = "open"]
  /\ ret' = [BaseRet EXCEPT !.op = "connect", !.task = t, !.sid = sid]
  /\ UNCHANGED <<now, phase, GLOBAL_STORE, regs, pc, lastAccess, hist, ids,
                 static_actions, static_fragment_components, registered, amb,
                 inbox, page, cast, conf>>

(* a push that goes to every registered channel *)
push_updates_all(socks, sid, components) ==
  LET open == {k \in Sids : socks[k] # NoConn}
      q == CHOOSE f \in Orders(open) : TRUE
  IN  [i \in DOMAIN q |->
         [to |-> socks[q[i]], type |-> "update",
          payload |-> [j \in DOMAIN components |->
                         [id |-> components[j].id,
                          html |-> components[j].html]]]]

(* WsEngine.push_updates(sid, components): the messages it sends *)
push_updates(socks, sid, components) ==
  IF socks[sid] # NoConn
  THEN <<[to |-> socks[sid], type |-> "update",
          payload |-> [i \in DOMAIN components |->
                         [id |-> components[i].id,
                          html |-> components[i].html]]]>>
  ELSE << >>

(* the codes an action callback appends to store['eval_queue'] in ws mode *)
EvalCodes(act) ==
  CASE act = "peek" -> <<"toast">>
    [] act = "save" -> <<"download", "toast", "balloons">>
    [] act = NotifyAct -> <<"toast", "balloons">>
    [] OTHER -> << >>

(* a push of client code that is sent whether or not a channel is there *)
push_eval_blind(socks, sid, code) ==
  <<[to |-> socks[sid], type |-> "eval", code |-> code]>>

(* WsEngine.push_eval(sid, code): the messages it sends *)
push_eval(socks, sid, code) ==
  IF socks[sid] # NoConn
  THEN <<[to |-> socks[sid], type |-> "eval", code |-> code]>>
  ELSE << >>

(* the pushes of a queue sent last code first *)
RECURSIVE PushEvalsBackwards(_, _, _)
PushEvalsBackwards(socks, sid, codes) ==
  IF codes = << >> THEN << >>
  ELSE PushEvalsBackwards(socks, sid, Tail(codes))
       \o push_eval(socks, sid, Head(codes))

(* for code in store.get('eval_queue', []): await push_eval(sid, code) *)
RECURSIVE PushEvals(_, _, _)
PushEvals(socks, sid, codes) ==
  IF codes = << >> THEN << >>
  ELSE push_eval(socks, sid, Head(codes)) \o PushEvals(socks, sid, Tail(codes))

(* store['eval_queue'] = []; act(): the callback's toast(), balloons() and *)
(* download_file() append their code to store['eval_queue']                *)
ActWs(act, st, ctx) ==
  LET r == RunAction(act, [st EXCEPT !.eval_queue = << >>], ctx)
  IN  [r EXCEPT !.eval_queue = @ \o EvalCodes(act)]

(* ws.process_message for {"type": "click", "id": cid}, the token check    *)
(* passed                                                                  *)
process_message(t, cid) ==
  /\ Serving(t) /\ chan[t] = "open"
  /\ LET store == Store(t)
         sid == SessionCtxGet(session_ctx, t)
         act == LookupAction(store, static_actions, cid)
     IN  IF act = NoAction
         THEN /\ GLOBAL_STORE' = Put(t, store)
              /\ ret' = [Met(t, "click") EXCEPT !.cid = cid]
              /\ KeepHist(t)
              /\ UNCHANGED <<session_ctx, chan, amb>>
         ELSE \E s0 \in {ActWs(act, store, rendering_ctx[t])} :
              \E q \in Orders(DirtySet(s0)) :
              \E d \in {GetDirtyRendered([s0 EXCEPT !.eval_queue = << >>],
                                         static_builders, q)} :
                    /\ InBound(d.st)
                    /\ AfterMessage(t, d.exc)
                    /\ GLOBAL_STORE' = Put(t, d.st)
                    /\ ret' = [Met(t, "click") EXCEPT !.cid = cid,
                                 !.act = act, !.ran = <<act>>,
                                 !.comps = d.main, !.log = d.log,
                                 !.raised = d.exc.raised,
                                 !.msgs =
                                   PushEvals(sockets, sid, s0.eval_queue)
                                   \o (IF d.main # << >>
                                       THEN push_updates(sockets, sid, d.main)
                                       ELSE << >>)]
                    /\ HistAfter(t, ActWrites(act), d.log)
  /\ Touch(t)
  /\ UNCHANGED <<now, phase, regs, pc, ids, static_actions,
                 static_fragment_components, registered, sockets>>

(* a click arrives on the channel of task t and is handled at once:        *)
(* data = await ws.receive_json(); await process_message(data)             *)
WsClick(t, cid) ==
  /\ inbox[t] = NoCid
  /\ process_message(t, cid)
  /\ UNCHANGED <<inbox, page, cast, conf>>

(* the client of task t's channel sends a click; the handler has not       *)
(* resumed from "await ws.receive_json()" yet                              *)
WsReceive(t, cid) ==
  /\ phase = "serving" /\ pc.at = "idle"
  /\ chan[t] = "open" /\ inbox[t] = NoCid
  /\ inbox' = [inbox EXCEPT ![t] = cid]
  /\ UNCHANGED <<page, cast, conf>>
  /\ ret' = [BaseRet EXCEPT !.op = "receive", !.task = t,
                            !.sid = session_ctx[t], !.cid = cid]
  /\ UNCHANGED <<now, phase, session_ctx, GLOBAL_STORE, regs, pc, lastAccess,
                 hist, ids, ext, amb>>

(* a handler that can resume only while no other handler is waiting for    *)
(* its next message                                                        *)
ScheduledAlone(t) ==
  /\ inbox[t] # NoCid
  /\ \A u \in Tasks \ {t} : ~(chan[u] = "open" /\ inbox[u] = NoCid)

(* "await ws.receive_json()" suspends the handler of task t alone: the     *)
(* event loop resumes it once its message is there, whatever the other     *)
(* handlers wait for                                                       *)
Scheduled(t) == inbox[t] # NoCid

(* the handler of task t resumes with the click it was sent:               *)
(* await process_message(data)                                             *)
WsProcess(t) ==
  /\ Scheduled(t)
  /\ process_message(t, inbox[t])
  /\ inbox' = [inbox EXCEPT ![t] = NoCid]
  /\ UNCHANGED <<page, cast, conf>>

(* a channel close that leaves the session's entry in the socket map *)
WsCloseKeep(t) ==
  /\ pc.at = "idle" /\ chan[t] = "open" /\ inbox[t] = NoCid
  /\ chan' = [chan EXCEPT ![t] = "none"]
  /\ session_ctx' = [session_ctx EXCEPT ![t] = NoneSid]
  /\ ret' = [BaseRet EXCEPT !.op = "close", !.task = t,
                            !.sid = session_ctx[t]]
  /\ UNCHANGED <<now, phase, GLOBAL_STORE, regs, pc, lastAccess, hist, ids,
                 static_actions, static_fragment_components, registered,
                 sockets, amb, inbox, page, cast, conf>>

(* /ws: WebSocketDisconnect: if sid in sockets: del sockets[sid];          *)
(* finally: session_ctx.reset(t).  receive_json raises it after the        *)
(* messages that arrived before the disconnect                             *)
WsClose(t) ==
  /\ pc.at = "idle" /\ chan[t] = "open" /\ inbox[t] = NoCid
  /\ sockets' = [sockets EXCEPT ![session_ctx[t]] = NoConn]
  /\ chan' = [chan EXCEPT ![t] = "none"]
  /\ session_ctx' = [session_ctx EXCEPT ![t] = NoneSid]
  /\ ret' = [BaseRet EXCEPT !.op = "close", !.task = t,
                            !.sid = session_ctx[t]]
  /\ UNCHANGED <<now, phase, GLOBAL_STORE, regs, pc, lastAccess, hist, ids,
                 static_actions, static_fragment_components, registered, amb,
                 inbox, page, cast, conf>>

(* what the page's script and the broadcast thread leave alone *)
server == <<now, phase, session_ctx, GLOBAL_STORE, regs, pc, ret, lastAccess,
            hist, ids, ext, amb, inbox>>

(* ------------------------------ broadcast ----------------------------- *)
(* Broadcaster.get_active_sessions: list(ws_engine.sockets.keys()) *)
get_active_sessions(socks) == {k \in Sids : socks[k] # NoConn}

(* a loop that ends at the first send that fails *)
AfterFailureStop(todo) == << >>

(* "except Exception as e: print(...)": the loop goes on with the next id *)
AfterFailure(todo) == Tail(todo)

(* Broadcaster.eval_all(js_code, exclude_current) called by task t: the    *)
(* excluded id is session_ctx.get() when exclude_current is set and the    *)
(* id is not None; the thread starts, takes the active session ids and     *)
(* drops the excluded one; q is the order of the keys                      *)
eval_all(t, exclude_current) ==
  /\ phase = "serving" /\ pc.at = "idle" /\ t \notin failed
  /\ ~cast.busy
  /\ \E x \in {IF exclude_current THEN session_ctx[t] ELSE NoneSid} :
     \E q \in Orders(get_active_sessions(sockets) \ {x}) :
       cast' = [busy |-> TRUE, todo |-> q,
                snap |-> get_active_sessions(sockets), excl |-> x,
                log |-> << >>, msgs |-> << >>]
  /\ ret' = [BaseRet EXCEPT !.op = "eval_all", !.task = t,
                            !.sid = session_ctx[t]]
  /\ UNCHANGED <<now, phase, session_ctx, GLOBAL_STORE, regs, pc, lastAccess,
                 hist, ids, ext, amb, inbox, page, conf>>

(* one turn of "for sid in active_sids": await push_eval(sid, js_code),     *)
(* which sends when the session has an entry; the send on the socket of    *)
(* the server's loop, made from the thread's own loop, goes through (ok)   *)
(* or raises, and the exception is caught                                  *)
broadcast_eval_async(ok) ==
  /\ cast.busy /\ cast.todo # << >>
  /\ LET sid == Head(cast.todo)
         out == push_eval(sockets, sid, "code")
     IN  cast' = [cast EXCEPT
           !.todo = IF out # << >> /\ ~ok THEN AfterFailure(@) ELSE Tail(@),
           !.msgs = IF ok THEN @ \o out ELSE @,
           !.log = Append(@, [sid |-> sid, reg |-> sockets[sid],
                              did |-> IF out = << >> THEN "skipped"
                                      ELSE IF ok THEN "sent" ELSE "failed"])]
  /\ UNCHANGED <<server, page, conf>>

(* the loop is over: print("Completed"), loop.close() *)
broadcast_done ==
  /\ cast.busy /\ cast.todo = << >>
  /\ cast' = [cast EXCEPT !.busy = FALSE]
  /\ UNCHANGED <<server, page, conf>>

(* window.sendAction(cid): the payload is queued while _wsReady is false,  *)
(* given to _ws.send otherwise                                             *)
sendAction(cid) ==
  /\ Len(page.triggered) < MaxClicks
  /\ page' = IF ~page.wsReady
             THEN [page EXCEPT !.actionQueue = Append(@, cid),
                               !.triggered = Append(@, cid)]
             ELSE [page EXCEPT !.sent = Append(@, cid),
                               !.triggered = Append(@, cid)]
  /\ UNCHANGED <<server, cast, conf>>

(* an onopen that leaves the queue as it is *)
onopenKeep ==
  /\ page.ws = "connecting"
  /\ page' = [page EXCEPT !.ws = "open", !.wsReady = TRUE,
                          !.sent = @ \o page.actionQueue, !.opened = TRUE]
  /\ UNCHANGED <<server, cast, conf>>

(* window._ws.onopen: _wsReady = true; every queued payload is sent, the   *)
(* queue is emptied                                                        *)
onopen ==
  /\ page.ws = "connecting"
  /\ page' = [page EXCEPT !.ws = "open", !.wsReady = TRUE,
                          !.sent = @ \o page.actionQueue,
                          !.actionQueue = << >>, !.opened = TRUE]
  /\ UNCHANGED <<server, cast, conf>>

(* window._ws.onerror: _wsReady = false *)
onerror ==
  /\ page.ws \in {"connecting", "open"}
  /\ page' = [page EXCEPT !.wsReady = FALSE]
  /\ UNCHANGED <<server, cast, conf>>

(* window._ws.onclose: _wsReady = false; checkServer is scheduled *)
onclose ==
  /\ page.ws \in {"connecting", "open"}
  /\ page' = [page EXCEPT !.ws = "closed", !.wsReady = FALSE]
  /\ UNCHANGED <<server, cast, conf>>

(* checkServer: the server answers, window.location.reload(): the script   *)
(* of the new page starts with an empty queue                             *)
checkServer ==
  /\ page.ws = "closed"
  /\ page' = [NewPage EXCEPT !.dropped = page.actionQueue]
  /\ UNCHANGED <<server, cast, conf>>

(* ------------------------------- tokens -------------------------------- *)
(* App.__init__ reads the environment: is_native_mode is whether           *)
(* VIOLIT_NATIVE_MODE is set, native_token the value of                    *)
(* VIOLIT_NATIVE_TOKEN (none when unset)                                   *)
AppInit(native_mode, token) ==
  /\ phase = "static" /\ pc.at = "idle"
  /\ conf' = [conf EXCEPT !.csrf_enabled = ~native_mode,
                          !.native_token = token]
  /\ ret' = [BaseRet EXCEPT !.op = "app"]
  /\ UNCHANGED <<now, phase, session_ctx, GLOBAL_STORE, regs, pc, lastAccess,
                 hist, ids, ext, amb, inbox, page, cast>>

(* a client sends a request of task t for the component cid: a POST with   *)
(* the form field _csrf_token and the cookie _native_token, or a click     *)
(* message with the fields _csrf_token and _native_token                   *)
Send(kind, t, cid, csrf, native) ==
  /\ phase = "serving" /\ pc.at = "idle"
  /\ IF kind = "click" THEN chan[t] = "open" /\ inbox[t] = NoCid
     ELSE Serving(t) /\ chan[t] = "none"
  /\ conf' = [conf EXCEPT !.req = [kind |-> kind, task |-> t, cid |-> cid,
                                   csrf |-> csrf, native |-> native]]
  /\ ret' = [BaseRet EXCEPT !.op = "send", !.task = t,
                            !.sid = session_ctx[t], !.cid = cid]
  /\ UNCHANGED <<now, phase, session_ctx, GLOBAL_STORE, regs, pc, lastAccess,
                 hist, ids, ext, amb, inbox, page, cast>>

(* the request is answered without a callback: a 403 response, or an       *)
(* error message on the channel                                            *)
Refused(t, cid, why) ==
  /\ ret' = [BaseRet EXCEPT !.op = "refused", !.task = t,
                            !.sid = session_ctx[t], !.cid = cid,
                            !.kind = why]
  /\ UNCHANGED <<now, phase, session_ctx, GLOBAL_STORE, regs, pc, lastAccess,
                 hist, ids, ext, amb, inbox, page, cast, conf>>

(* mw and the route POST /action/{cid} on the request task t received: mw  *)
(* blocks a request without the native token when one is configured; the   *)
(* route checks the CSRF token against the cookie's session id             *)
action(t) ==
  /\ conf.req.kind = "post" /\ conf.req.task = t
  /\ Serving(t) /\ chan[t] = "none"
  /\ LET sid == session_ctx[t]
         csrf_token == conf.req.csrf
     IN  IF conf.native_token # NoToken
            /\ conf.req.native # conf.native_token
         THEN Refused(t, conf.req.cid, "native")
         ELSE IF conf.csrf_enabled
                 /\ (csrf_token = NoToken
                     \/ ~verify_csrf_token(conf, sid, csrf_token))
              THEN Refused(t, conf.req.cid, "csrf")
              ELSE Post(t, conf.req.cid)

(* ws.process_message on the click message task t's channel received: the  *)
(* native token is checked when one is configured, the CSRF token          *)
(* otherwise                                                               *)
ws_message(t) ==
  /\ conf.req.kind = "click" /\ conf.req.task = t
  /\ phase = "serving" /\ pc.at = "idle" /\ chan[t] = "open"
  /\ LET sid == session_ctx[t]
         csrf_token == conf.req.csrf
     IN  IF conf.native_token # NoToken
         THEN IF conf.req.native # conf.native_token
              THEN Refused(t, conf.req.cid, "native")
              ELSE WsClick(t, conf.req.cid)
         ELSE IF conf.csrf_enabled
                 /\ (csrf_token = NoToken
                     \/ ~verify_csrf_token(conf, sid, csrf_token))
              THEN Refused(t, conf.req.cid, "csrf")
              ELSE WsClick(t, conf.req.cid)

Layouts == {"main", "sidebar"}

(* requests and callbacks of the tasks TT, task e[1] serving session e[2]  *)
(* for e in ES, with widget                                               *)
(* builders of the kinds KK under the layout targets LL, the callbacks     *)
(* reading and writing the signals NN                                     *)
Core(TT, ES, KK, LL, NN) ==
  \/ StartServer
  \/ \E e \in ES : Enter(e[1], e[2])
  \/ \E t \in TT : Exit(t)
  \/ \E t \in TT, k \in KK, l \in LL : Widget(t, k, l)
  \/ \E t \in TT, n \in NN, v \in Vals : Write(t, n, v)
  \/ \E t \in TT, n \in NN : Read(t, n)
  \/ \E t \in TT : FullRender(t)
  \/ \E t \in TT : DirtyRender(t)

(* a get_session_store call of a task of TT, the timer running meanwhile *)
Lookup(TT) ==
  \/ \E t \in TT : LookupBegin(t)
  \/ LookupTest
  \/ LookupBase
  \/ LookupBaseGet
  \/ LookupCreate
  \/ LookupRead
  \/ LookupRaise

(* the fixed ids and the builders registered under them *)
Named == {<<DialogId, "dlg">>, <<ListId, "list">>, <<ListId, "listg">>}
Scopes == {NoCid, DialogId, ListId}       \* fragment_ctx values

(* registrations by the tasks TT: widgets with builders KK and actions AA  *)
(* under the fragment scopes FF and layout targets LL, the named           *)
(* components NN under the scopes GG, the fragment and its wrapper         *)
Reg(TT, KK, AA, FF, LL, NN, GG) ==
  \/ \E t \in TT, k \in KK, a \in AA, f \in FF, l \in LL :
       WidgetIn(t, k, a, f, l)
  \/ \E t \in TT, n \in NN, f \in GG, l \in LL :
       RegisterNamed(t, n[1], n[2], f, l)
  \/ \E k \in {"frag"} \cup FragKinds : Fragment(k)
  \/ \E t \in TT : Wrapper(t)

(* persistent channels of the tasks e[1] for the sessions e[2], e in ES,   *)
(* and clicks on the components CC                                        *)
Chan(ES, CC) ==
  \/ \E e \in ES : WsConnect(e[1], e[2])
  \/ \E e \in ES, c \in CC : WsClick(e[1], c)
  \/ \E e \in ES : WsClose(e[1])

Next ==
  \/ Tick
  \/ Core(Tasks, Tasks \X Sids, Kinds, Layouts, Names)
  \/ Lookup(Tasks)
  \/ Reg(Tasks, Kinds, Acts \cup {NoAction}, Scopes, Layouts, Named,
         {NoCid, DialogId})
  \/ \E t \in Tasks, c \in Cids : Post(t, c)
  \/ Chan(Tasks \X Sids, Cids)

Spec == Init /\ [][Next]_vars

(* one session, every kind of builder, the timer at rest *)
NextRender == Core({"main", "t1"}, {<<"t1", "A">>}, Kinds, {"main"}, Names)
SpecRender == Init /\ [][NextRender]_vars

(* task t1 serving session A and task t2 serving session B, interleaved,  *)
(* the timer at rest                                                      *)
NextIso ==
  Core(Tasks, {<<"t1", "A">>, <<"t2", "B">>}, {"plain"}, {"main"}, {"s2"})
SpecIso == Init /\ [][NextIso]_vars

(* one session, the timer running, and the steps of get_session_store *)
NextTTL ==
  \/ Tick
  \/ Core({"main", "t1"}, {<<"t1", "A">>}, {"plain", "w"}, {"main"}, {"s2"})
  \/ Lookup({"main", "t1"})
SpecTTL == Init /\ [][NextTTL]_vars

(* the script body and one session: registration in every scope and full   *)
(* renders                                                                 *)
NextReg ==
  \/ StartServer
  \/ Enter("t1", "A")
  \/ Exit("t1")
  \/ \E t \in {"main", "t1"}, f \in {NoCid, ListId}, l \in Layouts :
       WidgetIn(t, "plain", NoAction, f, l)
  \/ \E k \in ListKinds, f \in {NoCid, DialogId} :
       RegisterNamed("t1", ListId, k, f, "main")
  \/ RegisterNamed("t1", DialogId, "dlg", NoCid, "main")
  \/ RegisterNamed("main", ListId, "list", NoCid, "main")
  \/ FullRender("t1")
SpecReg == Init /\ [][NextReg]_vars

(* a module-level fragment and widgets, in the script body and in two      *)
(* sessions, each served by a task of its own                              *)
NextVis ==
  \/ Fragment("frag")
  \/ StartServer
  \/ Enter("t1", "A")
  \/ Enter("t2", "B")
  \/ \E t \in {"t1", "t2"} : Exit(t)
  \/ \E t \in Tasks : Wrapper(t)
  \/ \E t \in Tasks : WidgetIn(t, "plain", NoAction, NoCid, "main")
  \/ \E t \in {"t1", "t2"} : FullRender(t)
SpecVis == Init /\ [][NextVis]_vars

(* buttons with a callback and a text without one, registered in the      *)
(* script body; task t1 holds a persistent channel of session A, task t2   *)
(* serves requests of session A or holds a channel of session A or B       *)
NextWs ==
  \/ StartServer
  \/ \E a \in {"toggle", "peek", NoAction} :
       WidgetIn("main", "plain", a, NoCid, "main")
  \/ Enter("t2", "A")
  \/ Exit("t2")
  \/ FullRender("t2")
  \/ \E c \in 0 .. (MaxCount - 1) : Post("t2", c)
  \/ Chan({<<"t1", "A">>, <<"t2", "A">>, <<"t2", "B">>}, 0 .. (MaxCount - 1))
SpecWs == Init /\ [][NextWs]_vars

(* the life of the stores: session A served by task t1 (a button, full     *)
(* renders), channels of sessions A and B held by task t2, the timer       *)
(* running, and a burst of other sessions                                  *)
NextLife ==
  \/ Tick
  \/ Flood
  \/ StartServer
  \/ Enter("t1", "A")
  \/ Exit("t1")
  \/ WidgetIn("t1", "plain", "toggle", NoCid, "main")
  \/ FullRender("t1")
  \/ Chan({<<"t2", "A">>, <<"t2", "B">>}, {0})
SpecLife == Init /\ [][NextLife]_vars

(* stateless mode: buttons and texts registered in the script body, and    *)
(* task t2 serving GET / and POST /action requests of session A            *)
NextPost ==
  \/ StartServer
  \/ \E k \in {"plain", WrapKind}, a \in Acts \cup {NoAction} :
       WidgetIn("main", k, a, NoCid, "main")
  \/ Enter("t2", "A")
  \/ Exit("t2")
  \/ FullRender("t2")
  \/ \E c \in 0 .. (MaxCount - 1) : Post("t2", c)
SpecPost == Init /\ [][NextPost]_vars

(* a fragment whose function calls widgets, and widgets of the script      *)
(* body, one of them with a content callable that can raise; task t1       *)
(* serves requests of session A: full renders, callbacks that read and     *)
(* set the signals, dirty renders; task t2 holds a channel of session A    *)
NextScope ==
  \/ \E k \in FragKinds : Fragment(k)
  \/ Wrapper("main")
  \/ \E k \in {"plain", BoomKind}, a \in {"toggle", NoAction} :
       WidgetIn("main", k, a, NoCid, "main")
  \/ StartServer
  \/ Enter("t1", "A")
  \/ Exit("t1")
  \/ FullRender("t1")
  \/ \E n \in Names : Write("t1", n, 1)
  \/ \E n \in Names : Read("t1", n)
  \/ DirtyRender("t1")
  \/ Chan({<<"t2", "A">>}, 0 .. (MaxCount - 1))
SpecScope == Init /\ [][NextScope]_vars

(* widgets that show derived signals, registered in the script body; task  *)
(* t1 serves session A: full renders, callbacks that read and write the    *)
(* signals, dirty renders                                                  *)
NextDerived ==
  Core({"main", "t1"}, {<<"t1", "A">>}, DerivedKinds, {"main"}, Names)
SpecDerived == Init /\ [][NextDerived]_vars

(* persistent channels under the event loop's scheduling: buttons of the   *)
(* script body, task t1 holding a channel of session A and task t2 one of  *)
(* session A or B; clicks on the first button are delivered, and each      *)
(* handler resumes when its message is there                               *)
NextFair ==
  \/ StartServer
  \/ WidgetIn("main", "plain", "toggle", NoCid, "main")
  \/ \E e \in {<<"t1", "A">>, <<"t2", "A">>, <<"t2", "B">>} :
       WsConnect(e[1], e[2])
  \/ \E t \in {"t1", "t2"} : FullRender(t)
  \/ \E t \in {"t1", "t2"} : WsReceive(t, 0)
  \/ \E t \in {"t1", "t2"} : WsProcess(t)
  \/ \E t \in {"t1", "t2"} : WsClose(t)
SpecFair ==
  /\ Init /\ [][NextFair]_vars
  /\ \A t \in {"t1", "t2"} : WF_vars(WsProcess(t))

(* callbacks that show effects: buttons of the script body whose callback  *)
(* sets a signal and queues a toast and balloons, or queues a download, a  *)
(* toast and balloons; tasks t1 and t2 hold channels of session A, and t1  *)
(* also requests the page                                                  *)
NextEval ==
  \/ StartServer
  \/ \E a \in {NotifyAct, "save"} :
       WidgetIn("main", "plain", a, NoCid, "main")
  \/ FullRender("t1")
  \/ Chan({<<"t1", "A">>, <<"t2", "A">>}, 0 .. (MaxCount - 1))
SpecEval == Init /\ [][NextEval]_vars

(* one browser tab in ws mode: clicks on two buttons, and the events of    *)
(* the page's channel                                                      *)
NextClient ==
  \/ \E c \in 0 .. (MaxCount - 1) : sendAction(c)
  \/ onopen
  \/ onerror
  \/ onclose
  \/ checkServer
SpecClient == Init /\ [][NextClient]_vars

(* token checks: the application starts with or without the two native    *)
(* environment variables; task t1 serves POST requests of session A, task  *)
(* t2 holds a channel of session A; clients send requests with any of the  *)
(* tokens for the toggle widget of the script body                         *)
NextToken ==
  \/ \E m \in BOOLEAN, k \in {NoToken, NativeToken} : AppInit(m, k)
  \/ WidgetIn("main", "plain", "toggle", NoCid, "main")
  \/ StartServer
  \/ Enter("t1", "A") \/ Exit("t1")
  \/ WsConnect("t2", "A") \/ WsClose("t2")
  \/ \E c \in CsrfSent, k \in NativeSent : Send("post", "t1", 0, c, k)
  \/ \E c \in CsrfSent, k \in NativeSent : Send("click", "t2", 0, c, k)
  \/ action("t1")
  \/ ws_message("t2")
SpecToken == Init /\ [][NextToken]_vars

(* broadcasts: tasks t1 and t2 hold channels of sessions A and B, and a    *)
(* callback of either session, or code outside any session, calls          *)
(* eval_all; channels open and close while the thread runs                 *)
NextCast ==
  \/ StartServer
  \/ \E e \in {<<"t1", "A">>, <<"t2", "B">>, <<"t2", "A">>} :
       WsConnect(e[1], e[2])
  \/ \E t \in {"t1", "t2"} : WsClose(t)
  \/ \E t \in Tasks, x \in BOOLEAN : eval_all(t, x)
  \/ \E ok \in BOOLEAN : broadcast_eval_async(ok)
  \/ broadcast_done
SpecCast == Init /\ [][NextCast]_vars

(* a navigation whose page renderer is registered in the script body, a   *)
(* fragment whose function calls widgets, rendered in the script body's    *)
(* layout, and                                                             *)
(* a list container holding a dialog, registered in a request; task t1     *)
(* serves session A: full renders, callbacks that set the navigation       *)
(* state or the signal the first page shows, dirty renders                 *)
NextPage ==
  \/ \E k \in PageKinds : WidgetIn("main", k, NoAction, NoCid, "main")
  \/ Fragment("fragw")
  \/ Wrapper("main")
  \/ StartServer
  \/ Enter("t1", "A")
  \/ Exit("t1")
  \/ RegisterNamed("t1", ListId, "list", NoCid, "main")
  \/ RegisterNamed("t1", DialogId, "dlg", ListId, "main")
  \/ FullRender("t1")
  \/ \E n \in Names : Write("t1", n, 1)
  \/ DirtyRender("t1")
SpecPage == Init /\ [][NextPage]_vars

(* ======================== properties of the code ======================= *)
(* the store record a lookup of sid would work on *)
Visible(G, sid, time) ==
  IF Contains(G, sid, time) THEN G[sid].data ELSE NewStore(0)

Returned(out) == {out[i].id : i \in DOMAIN out}

(* what a component of this kind shows for the signal values `states` *)
ContentOf(kind, states) ==
  LET V(n) == IF states[n] = Unset THEN 0 ELSE states[n]
  IN  CASE kind = "plain" -> <<V("s2")>>
        [] kind = "cond" -> IF V("s1") # 0 THEN <<V("s1"), V("s2")>>
                            ELSE <<V("s1")>>
        [] OTHER -> <<V("s1")>>

(* C1: no false negatives.  Within the life of a session's store, a        *)
(* component whose builder read S.value in a render pass, and that has a   *)
(* builder, is returned by the first dirty render after a later write to S *)
C1_NoFalseNegatives ==
  ret.op = "dirty" =>
    \A c \in ret.owed :
      LookupBuilder(Visible(GLOBAL_STORE, ret.sid, now), static_builders, c)
        # NoBuilder
      => c \in Returned(ret.comps)

(* a dirty render that returned a component owed to an earlier write *)
C1_Witness ==
  /\ ret.op = "dirty"
  /\ \E c \in ret.owed : c \in Returned(ret.comps)

(* C2: a dirty render empties the dirty set (only signals written by the   *)
(* builders it ran are dirty afterwards) and returns one fresh component   *)
(* for each id subscribed to a drained signal that has a builder, nothing  *)
(* else; each component shows the values the store holds when its builder  *)
(* runs: those at the call, changed only by builders run earlier in it     *)
C2_DirtyExact ==
  [][ret'.op = "dirty" =>
       LET pre == Visible(GLOBAL_STORE, ret'.sid, now)
           post == Visible(GLOBAL_STORE', ret'.sid, now')
           aff == UNION {pre.tracker[n] : n \in pre.dirty_states}
           expect == {c \in aff :
                        LookupBuilder(pre, static_builders, c) # NoBuilder}
           out == ret'.comps
           log == ret'.log
       IN  /\ Returned(out) = expect
           /\ Len(out) = Cardinality(expect)
           /\ post.dirty_states = LogWrites(log)
           /\ Len(log) = Len(out)
           /\ \A i \in DOMAIN out :
                out[i].html =
                  ContentOf(LookupBuilder(pre, static_builders, out[i].id),
                            log[i].seen)
           /\ Len(log) > 0 => log[1].seen = pre.states
           /\ \A i \in 1 .. (Len(log) - 1) : \A n \in Names :
                log[i + 1].seen[n] # log[i].seen[n] => n \in log[i].writes
     ]_vars

(* write(s2, 1); dirty_render() returned exactly one component showing 1 *)
C2_Witness ==
  /\ ret.op = "dirty"
  /\ Len(ret.comps) = 1
  /\ ret.comps[1].html = <<1>>
  /\ ret.log[1].kind = "plain"

(* C3: a dirty render with no signal written since the session's last      *)
(* drain, or since its store was created, returns the empty list           *)
C3_Drains ==
  ret.op = "dirty" /\ ret.wrote = {} => ret.comps = << >>

(* a dirty render that follows a non-empty dirty render with no write *)
C3_Witness ==
  /\ ret.op = "dirty"
  /\ ret.again
  /\ ret.wrote = {}
  /\ ret.comps = << >>

(* C4 as claimed: a dirty render returns only components whose most recent *)
(* builder run read one of the drained signals                            *)
C4_LastRenderOnly ==
  [][ret'.op = "dirty" =>
       LET pre == Visible(GLOBAL_STORE, ret'.sid, now)
       IN  \A c \in Returned(ret'.comps) :
             \E n \in pre.dirty_states : n \in lastReads[ret'.sid][c]
     ]_vars

(* C4, amended: a dirty render returns only components whose builder read  *)
(* one of the drained signals in some render pass since the session's      *)
(* store was created                                                       *)
C4_NoFalsePositives ==
  [][ret'.op = "dirty" =>
       LET pre == Visible(GLOBAL_STORE, ret'.sid, now)
       IN  \A c \in Returned(ret'.comps) :
             \E n \in pre.dirty_states : <<n, c>> \in everRead[ret'.sid]
     ]_vars

(* a dirty render that left out a component that never read the drained    *)
(* signal, while returning one that did                                    *)
C4_Witness ==
  /\ ret.op = "dirty"
  /\ ret.comps # << >>
  /\ \E c \in Cids :
       /\ c \notin Returned(ret.comps)
       /\ LookupBuilder(Visible(GLOBAL_STORE, ret.sid, now), static_builders, c)
            # NoBuilder
       /\ \E n \in Names : <<n, c>> \in everRead[ret.sid]

(* the full render of the store a lookup of sid would work on *)
FullRenderOf(G, sid, time) ==
  LET r == RenderAll(Visible(G, sid, time), static_builders, static_order,
                     static_sidebar_order)
  IN  <<r.main, r.sidebar>>

(* C5: a write in session A changes neither the value another session B    *)
(* reads for any signal nor the output of full_render(B); a session that   *)
(* has not written a signal itself reads its default and renders it        *)
C5_ValueIsolation ==
  [][/\ ret'.op = "write" =>
          \A B \in Sids \ {ret'.sid} :
            /\ \A n \in Names :
                 StateValue(Visible(GLOBAL_STORE', B, now'), n, NoCid).val
                   = StateValue(Visible(GLOBAL_STORE, B, now), n, NoCid).val
            /\ FullRenderOf(GLOBAL_STORE', B, now')
                 = FullRenderOf(GLOBAL_STORE, B, now)
     /\ ret'.op = "read" /\ ret'.name \notin written'[ret'.sid] =>
          ret'.val = default_value(ret'.name)
     /\ ret'.op = "full" /\ written'[ret'.sid] = {} =>
          \A i \in DOMAIN ret'.main :
            ret'.main[i].html =
              ContentOf(ret'.log[i].kind, NewStore(0).states)
    ]_vars

(* session A wrote 1 while session B, which never wrote, holds a store     *)
(* whose full render shows the default                                    *)
C5_Witness ==
  /\ ret.op = "write" /\ ret.sid = "A" /\ ret.val = 1
  /\ Contains(GLOBAL_STORE, "B", now)
  /\ written["B"] = {}
  /\ FullRenderOf(GLOBAL_STORE, "B", now)[1] # << >>
  /\ FullRenderOf(GLOBAL_STORE, "B", now)[1][1].html = <<0>>

(* C6: with the operations of several sessions interleaved, an operation   *)
(* of session A records its dependency edges in A's tracker and marks A's  *)
(* dirty set, and leaves the tracker, the dirty set and so the next dirty  *)
(* render of every other session as they were                              *)
C6_ContextIsolation ==
  [][ret'.op \in {"widget", "write", "read", "full", "dirty"}
       /\ ret'.sid \in Sids =>
       LET own == Visible(GLOBAL_STORE', ret'.sid, now')
       IN  /\ \A p \in LogPairs(ret'.log) : p[2] \in own.tracker[p[1]]
           /\ ret'.op = "write" => ret'.name \in own.dirty_states
           /\ \A B \in Sids \ {ret'.sid} :
                LET pre == Visible(GLOBAL_STORE, B, now)
                    post == Visible(GLOBAL_STORE', B, now')
                IN  /\ post.tracker = pre.tracker
                    /\ post.dirty_states = pre.dirty_states
                    /\ DirtySet(post) = DirtySet(pre)
    ]_vars

(* two tasks serve two sessions at once; one has just rendered its session *)
(* while the other session's tracker holds edges of its own                *)
C6_Witness ==
  /\ session_ctx["t1"] \in Sids /\ session_ctx["t2"] \in Sids
  /\ session_ctx["t1"] # session_ctx["t2"]
  /\ ret.op = "full" /\ ret.task = "t2" /\ ret.log # << >>
  /\ \E n \in Names :
       Visible(GLOBAL_STORE, session_ctx["t1"], now).tracker[n] # {}

(* C7: an access to a session id that was not accessed for TTL seconds     *)
(* creates a new store, and a signal read in it gives the default value    *)
C7_EvictionResets ==
  ret.op = "read" /\ ret.idle >= TTL =>
    ret.created /\ ret.val = default_value(ret.name)

(* a read after TTL idle seconds of a signal that was written before *)
C7_Witness ==
  /\ ret.op = "read" /\ ret.idle >= TTL
  /\ ret.stale = 1
  /\ ret.val = default_value(ret.name)

(* C8 as claimed: a session's store is created anew only when the session  *)
(* was never accessed or its last access is at least TTL seconds old       *)
C8_SlidingExpiration ==
  ret.sid \in Sids /\ ret.created /\ ret.idle # -1 => ret.idle >= TTL

(* C9 as claimed: no step of get_session_store raises *)
C9_NeverRaises ==
  pc.at # "raised"

(* C10 as claimed: a session store is created with the count the static    *)
(* pass reached, and no session id equals a static id                      *)
C10_CounterBaseline ==
  /\ ret.sid \in Sids /\ ret.created => ret.base = Cardinality(staticIds)
  /\ staticIds \cap sessionIds = {}

(* the store a call of get_session_store for sid works on *)
Worked(G, sid, time) == get_session_store(G, sid, time)[sid].data

(* seq with x appended, or seq itself if it holds x and once is set *)
Added(seq, x, once) ==
  IF once /\ \E i \in DOMAIN seq : seq[i] = x THEN seq ELSE Append(seq, x)

(* C12: a _register_component call goes to the static registry iff no      *)
(* session is active; under the sidebar target the id is appended to that  *)
(* registry's sidebar order, also inside a fragment scope; otherwise,      *)
(* inside a fragment scope, (id, builder) is appended to that fragment's   *)
(* child list; otherwise the id is appended to the main order.  Only that  *)
(* one list changes, by at most one entry (the static orders keep an id    *)
(* they hold already)                                                      *)
C12_Routing ==
  [][ret'.op \in {"widget", "named"} =>
       LET sid == ret'.sid
           cid == ret'.cid
           f == ret'.frag
           static == sid = NoneSid
           pre == Worked(GLOBAL_STORE, sid, now)
           post == GLOBAL_STORE'[sid].data
           pair == [cid |-> cid, b |-> ret'.kind]
           tgt == IF ret'.layout = "sidebar" THEN "sidebar"
                  ELSE IF f # NoCid THEN "frag" ELSE "main"
       IN  /\ static_order' =
                IF static /\ tgt = "main" THEN Added(static_order, cid, TRUE)
                ELSE static_order
           /\ static_sidebar_order' =
                IF static /\ tgt = "sidebar"
                THEN Added(static_sidebar_order, cid, TRUE)
                ELSE static_sidebar_order
           /\ \A c \in Cids :
                static_fragment_components'[c] =
                  IF static /\ tgt = "frag" /\ c = f
                  THEN Append(static_fragment_components[c], pair)
                  ELSE static_fragment_components[c]
           /\ post.order =
                IF ~static /\ tgt = "main" THEN Append(pre.order, cid)
                ELSE pre.order
           /\ post.sidebar_order =
                IF ~static /\ tgt = "sidebar"
                THEN Append(pre.sidebar_order, cid)
                ELSE pre.sidebar_order
           /\ \A c \in Cids :
                post.fragment_components[c] =
                  IF ~static /\ tgt = "frag" /\ c = f
                  THEN Append(pre.fragment_components[c], pair)
                  ELSE pre.fragment_components[c]
    ]_vars

(* a widget registered in a session inside a fragment scope under the      *)
(* sidebar target: its id is on the session's sidebar order and in no      *)
(* child list                                                              *)
C12_Witness ==
  /\ ret.op = "widget" /\ ret.sid = "A"
  /\ ret.frag = ListId /\ ret.layout = "sidebar"
  /\ \E i \in DOMAIN GLOBAL_STORE["A"].data.sidebar_order :
       GLOBAL_STORE["A"].data.sidebar_order[i] = ret.cid
  /\ GLOBAL_STORE["A"].data.fragment_components[ListId] = << >>

(* the builder the store of sid holds for c: the last one registered there *)
Held(sid, c) == GLOBAL_STORE[sid].data.builders[c]

(* C13: last registration wins.  After a full or dirty render of a        *)
(* session, every builder the render ran for an id registered in that     *)
(* session's store is the builder the store holds for the id, the one of   *)
(* the last registration; no builder of an earlier registration runs       *)
C13_LastWins ==
  (ret.op \in {"full", "dirty"} /\ ret.sid \in Sids) =>
    \A i \in DOMAIN ret.log :
       Held(ret.sid, ret.log[i].cid) # NoBuilder =>
         ret.log[i].kind = Held(ret.sid, ret.log[i].cid)

(* seq holds no value twice *)
NoDup(seq) == \A i, j \in DOMAIN seq : i # j => seq[i] # seq[j]

(* the ids of a child list of (id, builder) pairs *)
ChildIds(pairs) == [i \in DOMAIN pairs |-> pairs[i].cid]

(* the ids of the components of a rendered list *)
Emitted(comps) == [i \in DOMAIN comps |-> comps[i].id]

(* C14: re-registration is idempotent.  Every order list and every child  *)
(* list, of the static registry and of every session store, holds an id   *)
(* at most once, and a full render emits no component twice                *)
C14_Idempotent ==
  /\ NoDup(static_order) /\ NoDup(static_sidebar_order)
  /\ \A c \in Cids : NoDup(ChildIds(static_fragment_components[c]))
  /\ \A sid \in Sids :
       GLOBAL_STORE[sid].present =>
         /\ NoDup(GLOBAL_STORE[sid].data.order)
         /\ NoDup(GLOBAL_STORE[sid].data.sidebar_order)
         /\ \A c \in Cids :
              NoDup(ChildIds(GLOBAL_STORE[sid].data.fragment_components[c]))
  /\ ret.op = "full" => NoDup(Emitted(ret.main)) /\ NoDup(Emitted(ret.sidebar))

(* the cache entry of key k holds after the step the store dict it held    *)
(* before it: it was not evicted and created again                         *)
SameStore(k) ==
  /\ GLOBAL_STORE[k].present /\ GLOBAL_STORE'[k].present
  /\ GLOBAL_STORE'[k].expires = GLOBAL_STORE[k].expires

(* C15: id generation.  A _get_next_cid call returns the store's counter   *)
(* and adds one to it; the id was not returned before by that store; no   *)
(* step lowers the counter of a store that stays in the cache             *)
C15_IdGeneration ==
  [][/\ ret'.op = "widget" =>
          LET pre == Worked(GLOBAL_STORE, ret'.sid, now)
              post == GLOBAL_STORE'[ret'.sid].data
          IN  /\ ret'.cid = pre.component_count
              /\ post.component_count = pre.component_count + 1
              /\ ret'.cid \notin pre.issued
     /\ \A k \in Keys :
          SameStore(k) =>
            GLOBAL_STORE'[k].data.component_count >=
              GLOBAL_STORE[k].data.component_count
    ]_vars

(* the second _get_next_cid call of one store of session A *)
C15_Witness ==
  /\ ret.op = "widget" /\ ret.sid = "A" /\ ~ret.created
  /\ GLOBAL_STORE["A"].data.issued = {0, 1}
  /\ ret.cid = 1

(* the components of the ids of `cids` that have a builder, in list order, *)
(* each built by the store's builder if it holds one, else by the static   *)
(* one.  No builder of this specification writes a signal or resets a      *)
(* child list, so each is built on the store st as the render found it     *)
Resolved(st, cids) ==
  LET ok == SelectSeq(cids, LAMBDA c :
                              LookupBuilder(st, static_builders, c) # NoBuilder)
  IN  [i \in DOMAIN ok |->
         Build(LookupBuilder(st, static_builders, ok[i]), ok[i], st).comp]

(* C16: full render order.  The main HTML is the static main order's       *)
(* components in registration order followed by the session's main         *)
(* order's, the sidebar HTML likewise from the two sidebar orders, each    *)
(* id resolved through the session's builder if present, else the static   *)
C16_FullOrder ==
  [][ret'.op = "full" =>
       LET pre == Worked(GLOBAL_STORE, ret'.sid, now)
       IN  /\ ret'.main = Resolved(pre, static_order \o pre.order)
           /\ ret'.sidebar =
                Resolved(pre, static_sidebar_order \o pre.sidebar_order)
    ]_vars

(* a full render with a static widget before a session widget on the main  *)
(* list, and a list container registered statically and again, with a gap, *)
(* in the session: both of its entries are built by the session's builder  *)
C16_Witness ==
  /\ ret.op = "full"
  /\ static_builders[ListId] = "list"
  /\ Held(ret.sid, ListId) = "listg"
  /\ Emitted(ret.main) = <<ListId, 0, ListId>>
  /\ ret.main[1].html = <<GapMark>>
  /\ ret.main[3].html = <<GapMark>>

(* c is on the list seq *)
OnList(seq, c) == \E i \in DOMAIN seq : seq[i] = c

(* C11: registry visibility.  A full render of any session emits every     *)
(* component of the static main order that has a builder; and what a       *)
(* session registers does not depend on another session: after a session   *)
(* called the fragment's wrapper, the fragment is on the static order or   *)
(* on that session's own order, whatever other sessions did before        *)
C11_Visibility ==
  [][/\ ret'.op = "full" =>
          \A i \in DOMAIN static_order :
             static_builders[static_order[i]] # NoBuilder =>
               \E j \in DOMAIN ret'.main :
                  ret'.main[j].id \in {static_order[i],
                                       WrapperId(static_order[i])}
     /\ (ret'.op = "wrapper" /\ ret'.sid \in Sids) =>
          \/ OnList(static_order', FragId)
          \/ OnList(GLOBAL_STORE'[ret'.sid].data.order, FragId)
    ]_vars

(* the number of entries of cids that have a builder in the store st or in *)
(* the static registry                                                     *)
RECURSIVE Built(_, _)
Built(st, cids) ==
  IF cids = << >> THEN 0
  ELSE Built(st, Tail(cids)) +
         (IF st.builders[Head(cids)] # NoBuilder
             \/ static_builders[Head(cids)] # NoBuilder THEN 1 ELSE 0)

Updates(msgs) == SelectSeq(msgs, LAMBDA m : m.type = "update")

(* every message of msgs went to the channel registered for sid, which    *)
(* serves sid                                                              *)
OnlyTo(msgs, sid) ==
  \A i \in DOMAIN msgs :
     /\ msgs[i].to = sockets[sid]
     /\ msgs[i].to # NoConn
     /\ session_ctx[msgs[i].to] = sid
     /\ chan[msgs[i].to] = "open"

(* the {id, html} entries of the components of a dirty render, in order *)
Entries(comps) ==
  [i \in DOMAIN comps |-> [id |-> comps[i].id, html |-> comps[i].html]]

(* C18 as claimed: every click of session A that runs a callback sends     *)
(* one update message, with one {id, html} entry per component of the      *)
(* click's dirty render, on a channel registered for A                     *)
C18_OneUpdate ==
  [][(ret'.op = "click" /\ ret'.ran # << >>) =>
       /\ Len(Updates(ret'.msgs)) = 1
       /\ Updates(ret'.msgs)[1].payload = Entries(ret'.comps)
       /\ OnlyTo(ret'.msgs, ret'.sid)
    ]_vars

(* C18, amended: a click of session A that runs a callback sends at most   *)
(* one update message, and one exactly when its dirty render returned a    *)
(* component and a channel is registered for A at that time; the payload   *)
(* has one {id, html} entry per returned component, in order; the message  *)
(* and every other message of the click go to the channel registered for   *)
(* A, which serves A and is open                                           *)
C18_TargetedPush ==
  [][(ret'.op = "click" /\ ret'.ran # << >>) =>
       /\ Len(Updates(ret'.msgs)) <= 1
       /\ Len(Updates(ret'.msgs)) = 1 <=>
            (ret'.comps # << >> /\ sockets[ret'.sid] # NoConn)
       /\ \A i \in DOMAIN Updates(ret'.msgs) :
            Updates(ret'.msgs)[i].payload = Entries(ret'.comps)
       /\ OnlyTo(ret'.msgs, ret'.sid)
    ]_vars

(* a click of session A that sent its one update, with one entry, while    *)
(* session B holds a channel too                                           *)
C18_Witness ==
  /\ ret.op = "click" /\ ret.sid = "A" /\ ret.ran = <<"toggle">>
  /\ Len(ret.msgs) = 1
  /\ ret.msgs[1].type = "update"
  /\ Len(ret.msgs[1].payload) = 1
  /\ ret.msgs[1].to = "t1"
  /\ sockets["B"] = "t2"

(* C19: a click of a session that has no registered channel at push time   *)
(* sends no update and no eval message and raises nothing; nothing is      *)
(* kept for a later channel (the socket map is as before); the signal      *)
(* values the callback wrote are in the session store                     *)
C19_DroppedPush ==
  [][(ret'.op = "click" /\ ret'.ran # << >> /\ sockets[ret'.sid] = NoConn) =>
       LET pre == Worked(GLOBAL_STORE, ret'.sid, now)
           post == GLOBAL_STORE'[ret'.sid].data
           was == IF pre.states["s2"] = Unset THEN default_value("s2")
                  ELSE pre.states["s2"]
       IN  /\ ret'.msgs = << >>
           /\ ~ret'.raised
           /\ sockets' = sockets
           /\ ret'.act = "toggle" => post.states["s2"] = 1 - was
           /\ ret'.act = "peek" => post.states = pre.states
    ]_vars

(* a click on the channel of task t1 after another channel of the same     *)
(* session closed and took the session's entry with it: the dirty render   *)
(* returned a component, nothing was sent, s2 holds the toggled value      *)
C19_Witness ==
  /\ ret.op = "click" /\ ret.task = "t1" /\ ret.sid = "A"
  /\ chan["t1"] = "open" /\ sockets["A"] = NoConn
  /\ ret.act = "toggle" /\ ret.comps # << >>
  /\ ret.msgs = << >>
  /\ GLOBAL_STORE["A"].data.states["s2"] = 1

C21_OnlyTTL ==
  [][\A k \in Sids :
       (GLOBAL_STORE[k].present /\ now' < GLOBAL_STORE[k].expires) =>
         SameStore(k)
    ]_vars

(* the ids of the builders a log says were run *)
Ran(log) == [i \in DOMAIN log |-> log[i].cid]

(* C22: a POST whose id has a callback gets one body that starts with the  *)
(* clicked component's HTML without the out-of-band mark, followed by      *)
(* every other component of the dirty render once, each with the mark;     *)
(* no component is in the body twice and no builder ran twice for it       *)
C22_Composition ==
  [][(ret'.op = "post" /\ ret'.ran # << >>) =>
       LET body == SelectSeq(ret'.body, LAMBDA e : e.id < ToastInjector)
           rest == SubSeq(body, 2, Len(body))
       IN  /\ body # << >>
           /\ ~body[1].oob
           /\ body[1].id \in {ret'.cid, WrapperId(ret'.cid)}
           /\ \A i \in DOMAIN rest : rest[i].oob
           /\ \A i \in DOMAIN ret'.comps :
                ret'.comps[i].id # body[1].id =>
                  \E j \in DOMAIN rest : rest[j].id = ret'.comps[i].id
           /\ \A j \in DOMAIN rest :
                \E i \in DOMAIN ret'.comps : ret'.comps[i].id = rest[j].id
           /\ NoDup(Emitted(body))
           /\ NoDup(Ran(ret'.log))
    ]_vars

(* how often x is on the list seq *)
Count(seq, x) == Cardinality({i \in DOMAIN seq : seq[i] = x})

(* the effects carried by the injector blocks of a response body, in order *)
RECURSIVE Carried(_)
Carried(body) ==
  IF body = << >> THEN << >>
  ELSE (IF Head(body).id >= ToastInjector THEN Head(body).html ELSE << >>)
       \o Carried(Tail(body))

(* C23: when a POST whose id has a callback is answered, every effect      *)
(* queued in the session (toasts, balloons or snow, client code) is in     *)
(* the response once, after all component HTML, and its queue is empty     *)
(* afterwards                                                              *)
C23_EffectsOnce ==
  [][(ret'.op = "post" /\ ret'.ran # << >>) =>
       LET pre == Worked(GLOBAL_STORE, ret'.sid, now)
           post == GLOBAL_STORE'[ret'.sid].data
           queued == pre.toasts \o LiteQueued(ret'.act).toasts
                     \o pre.effects \o LiteQueued(ret'.act).effects
                     \o LiteQueued(ret'.act).evals
           body == ret'.body
       IN  /\ \A i \in DOMAIN queued :
                Count(Carried(body), queued[i]) = Count(queued, queued[i])
           /\ \A i, j \in DOMAIN body :
                (body[i].id >= ToastInjector /\ body[j].id < ToastInjector)
                  => j < i
           /\ post.toasts = << >> /\ post.effects = << >>
           /\ post.eval_queue = << >>
    ]_vars

(* the edges of the tracker of st: <<signal, component id>> *)
Edges(st) == {e \in Names \X (Cids \cup {NoCid}) : e[2] \in st.tracker[e[1]]}

(* C24: a read of a signal while no component is rendering registers      *)
(* nothing.  A callback's read (a Read step, or the callback of a click)   *)
(* adds no edge: every edge a step of these kinds adds is one of a         *)
(* builder the step ran, for a signal that builder read                    *)
C24_ReadsOutsideRender ==
  [][ret'.op \in {"read", "click", "post"} =>
       \A e \in Edges(GLOBAL_STORE'[ret'.sid].data)
                  \ Edges(Visible(GLOBAL_STORE, ret'.sid, now)) :
          \E i \in DOMAIN ret'.log :
             ret'.log[i].cid = e[2] /\ e[1] \in ret'.log[i].reads
    ]_vars

(* a click whose callback read s2, followed by a render that added edges; *)
(* and the tracker of the session holds an edge                            *)
C24_Witness ==
  /\ ret.op = "click" /\ ret.act = "toggle" /\ ret.log # << >>
  /\ GLOBAL_STORE[ret.sid].present
  /\ Edges(GLOBAL_STORE[ret.sid].data) # {}

(* C25: every entry into an ambient scope is undone on exit, whether the   *)
(* builder, fragment or request returns or raises: between operations      *)
(* every task finds rendering_ctx and fragment_ctx at their defaults, and  *)
(* a task whose request an exception ended finds session_ctx at its        *)
(* default                                                                 *)
C25_ScopeRestoration ==
  \A t \in Tasks :
     /\ rendering_ctx[t] = NoCid
     /\ fragment_ctx[t] = NoCid
     /\ t \in failed => session_ctx[t] = NoneSid

(* what the children of the list kids show, one after the other *)
RECURSIVE Shown(_, _)
Shown(kids, states) ==
  IF kids = << >> THEN << >>
  ELSE ContentOf(Head(kids).b, states) \o Shown(Tail(kids), states)

(* C26: a render of the fragment returns its children's html in the order  *)
(* the children were registered during that render: the child list holds   *)
(* the widgets this run of the function called (one, or two when s1 is     *)
(* set), none of an earlier render, each once, and the fragment's          *)
(* component shows them in list order                                      *)
C26_FragmentRender ==
  [][(ret'.op \in {"full", "dirty", "click"} /\ ~ret'.raised) =>
       LET pre == Visible(GLOBAL_STORE, ret'.sid, now)
           post == GLOBAL_STORE'[ret'.sid].data
           kids == post.fragment_components[FragId]
           out == ret'.main \o ret'.comps
       IN  \A i \in DOMAIN out :
              out[i].id = WrapperId(FragId) =>
                /\ out[i].html = Shown(kids, post.states)
                /\ NoDup(ChildIds(kids))
                /\ Len(kids) = IF post.states["s1"] \in {Unset, 0} THEN 1
                               ELSE 2
                /\ \A j \in DOMAIN kids : kids[j].cid \notin pre.issued
    ]_vars

(* a full render gave the fragment with the one child of this render,     *)
(* component 1, after an earlier render of the session had registered its  *)
(* child as component 0                                                    *)
C26_Witness ==
  /\ ret.op = "full" /\ ~ret.raised
  /\ \E i \in DOMAIN ret.main : ret.main[i].id = WrapperId(FragId)
  /\ GLOBAL_STORE[ret.sid].present
  /\ ChildIds(GLOBAL_STORE[ret.sid].data.fragment_components[FragId]) = <<1>>
  /\ GLOBAL_STORE[ret.sid].data.builders[0] = "plain"

(* the components of the store st that no longer exist: a builder of the   *)
(* session is kept under the id, and no order and no child list names it   *)
Dropped(st) ==
  {c \in Cids :
     /\ st.builders[c] # NoBuilder
     /\ ~OnList(st.order, c) /\ ~OnList(st.sidebar_order, c)
     /\ \A f \in Cids : ~OnList(ChildIds(st.fragment_components[f]), c)}

(* C30: a child that a later render of its fragment dropped from the child *)
(* list is never returned by a subsequent dirty render: no component of a  *)
(* dirty render has the id of a component that was dropped before it       *)
C30_StaleNotRebuilt ==
  [][ret'.op \in {"dirty", "click"} =>
       \A i \in DOMAIN ret'.comps :
          ret'.comps[i].id \notin Dropped(Visible(GLOBAL_STORE, ret'.sid, now))
    ]_vars

(* C28: over the lifetime of a session store the subscriber set of every   *)
(* signal only grows: a step that leaves the store of a session in the     *)
(* cache (no eviction) removes no edge of its tracker                      *)
C28_EdgesAccumulate ==
  [][\A k \in Sids :
       SameStore(k) =>
         \A n \in Names :
            GLOBAL_STORE[k].data.tracker[n] \subseteq
              GLOBAL_STORE'[k].data.tracker[n]
    ]_vars

(* a click wrote s2 and the dirty render that followed ran a builder; the  *)
(* store of the session still holds the edge from s2                       *)
C28_Witness ==
  /\ ret.op = "click" /\ ret.act = "toggle" /\ ret.log # << >>
  /\ GLOBAL_STORE[ret.sid].present
  /\ GLOBAL_STORE[ret.sid].data.tracker["s2"] # {}
  /\ GLOBAL_STORE[ret.sid].data.states["s2"] = 1

(* the value of the derived signal of this kind for the signal values      *)
(* `states`, and the signals its evaluation reads                          *)
DerivedOf(kind, states) ==
  LET V(n) == IF states[n] = Unset THEN 0 ELSE states[n]
  IN  IF kind = "sum2" THEN V("s1") + V("s2") + 1
      ELSE IF V("s1") = 1 /\ V("s2") = 1 THEN 1 ELSE 0

Evaluated(kind, states) ==
  IF kind = "sum2" \/ states["s1"] = 1 THEN {"s1", "s2"} ELSE {"s1"}

(* C27: a derived signal is evaluated anew on every read and its reads     *)
(* are registered through every level.  Each builder run of a render       *)
(* shows the derived signal's function of the current values, and leaves   *)
(* its component subscribed to every signal the evaluation read; and a     *)
(* dirty render returns every such component whose latest evaluation read  *)
(* a signal written since the last dirty render                            *)
C27_DerivedSignals ==
  [][(ret'.op \in {"full", "dirty"} /\ ~ret'.raised) =>
       LET sid == ret'.sid
           post == GLOBAL_STORE'[sid].data
           out == ret'.main \o ret'.sidebar \o ret'.comps
       IN  /\ \A i \in DOMAIN ret'.log :
                ret'.log[i].kind \in DerivedKinds =>
                  /\ ret'.log[i].reads =
                       Evaluated(ret'.log[i].kind, post.states)
                  /\ \A n \in ret'.log[i].reads :
                        ret'.log[i].cid \in post.tracker[n]
                  /\ \E j \in DOMAIN out :
                        /\ out[j].id = ret'.log[i].cid
                        /\ out[j].html =
                             <<DerivedOf(ret'.log[i].kind, post.states)>>
           /\ (ret'.op = "dirty" /\ ~ret'.created) =>
                \A c \in Cids :
                   (/\ static_builders[c] \in DerivedKinds
                    /\ lastReads[sid][c] \cap wrote[sid] # {})
                   => c \in Returned(ret'.comps)
    ]_vars

(* a dirty render after a write returned the component that shows          *)
(* (s1 + s2) + 1 with both signals set, and one that shows the conjunction *)
C27_Witness ==
  /\ ret.op = "dirty" /\ ret.wrote # {}
  /\ \E i \in DOMAIN ret.comps : ret.comps[i].html = <<3>>
  /\ \E i \in DOMAIN ret.log : ret.log[i].kind = "both"

(* a click on component c waits on the open channel of task t, and the     *)
(* session of the channel has an action registered for c                   *)
Pending(t, c) ==
  /\ chan[t] = "open" /\ inbox[t] = c
  /\ LookupAction(Visible(GLOBAL_STORE, session_ctx[t], now),
                  static_actions, c) # NoAction

(* the last step handled that click: its callback ran *)
Processed(t, c) ==
  ret.op = "click" /\ ret.task = t /\ ret.cid = c /\ ret.ran # << >>

OpenSids == {session_ctx[t] : t \in {u \in Tasks : chan[u] = "open"}}

(* C31: ws_engine.sockets has an entry for a session id exactly when at    *)
(* least one persistent channel of that session is open                    *)
C31_SocketMapTracksOpen ==
  \A sid \in Sids : sockets[sid] # NoConn <=> sid \in OpenSids


(* the eval messages among msgs, and their codes *)
Evals(msgs) == SelectSeq(msgs, LAMBDA m : m.type = "eval")
Codes(msgs) == [i \in DOMAIN msgs |-> msgs[i].code]

PageRuns(log) == {i \in DOMAIN log : log[i].kind \in PageKinds}

(* the fragments a render ran: their builders rewrite their own child list *)
FragmentRuns(log) ==
  {log[i].cid : i \in {j \in DOMAIN log : log[j].kind \in FragKinds}}

(* C36: a render that runs a page renderer leaves the session's main       *)
(* order and its child lists as they were (but for the child list of a     *)
(* fragment the same render ran beside the page), also when the page       *)
(* function or one of its builders raised                                  *)
C36_PageKeepsRegistry ==
  [][(ret'.op \in {"full", "dirty"} /\ PageRuns(ret'.log) # {}) =>
       LET pre == Worked(GLOBAL_STORE, ret'.sid, now)
           post == GLOBAL_STORE'[ret'.sid].data
       IN  /\ post.order = pre.order
           /\ \A c \in Cids \ FragmentRuns(ret'.log) :
                post.fragment_components[c] = pre.fragment_components[c]
    ]_vars

(* a page render whose page function registered a widget, and whose loop   *)
(* ran that widget's builder, which raised, while the session's order held *)
(* the list container and the container's child list held the dialog: the  *)
(* order and the child list are there after the render                     *)
C36_Witness ==
  /\ ret.op = "full" /\ ret.raised
  /\ \E i \in PageRuns(ret.log) : Len(ret.log[i].nest) = 1
  /\ GLOBAL_STORE[ret.sid].data.order = <<ListId>>
  /\ GLOBAL_STORE[ret.sid].data.fragment_components[ListId] # << >>


(* the reads of the builders of log, as tracker edges *)
ReadEdges(log) ==
  {e \in Names \X Cids : \E i \in DOMAIN log : log[i].cid = e[2]
                                                 /\ e[1] \in log[i].reads}

C34_WritesInRenderKept ==
  [][ret'.op = "dirty" =>
       LET pre == Visible(GLOBAL_STORE, ret'.sid, now)
           post == Visible(GLOBAL_STORE', ret'.sid, now')
       IN  /\ LogWrites(ret'.log) \subseteq post.dirty_states
           /\ \A s \in ret'.wrote : \A c \in pre.tracker[s] :
                LookupBuilder(pre, static_builders, c) # NoBuilder
                  => c \in Returned(ret'.comps)
    ]_vars

(* two dirty renders in a row: a builder of the first set s2, and the      *)
(* second returned a component although no callback wrote in between       *)
C34_Witness ==
  /\ ret.op = "dirty" /\ ret.again
  /\ ret.wrote = {"s2"}
  /\ ret.comps # << >>
  /\ \E i \in DOMAIN ret.comps :
        ret.comps[i].id \in GLOBAL_STORE[ret.sid].data.tracker["s2"]


(* C35: a dirty render that drains exactly one signal S returns no         *)
(* component that has not read S in a render pass of the session since     *)
(* its store was created                                                   *)
C35_NeverReadNeverReturned ==
  [][ret'.op = "dirty" =>
       LET pre == Visible(GLOBAL_STORE, ret'.sid, now)
           read == IF Contains(GLOBAL_STORE, ret'.sid, now)
                   THEN everRead[ret'.sid] ELSE {}
       IN  \A s \in Names : pre.dirty_states = {s} =>
             \A c \in Cids : <<s, c>> \notin read =>
                c \notin Returned(ret'.comps)
    ]_vars

(* a dirty render that drained s2 alone and returned the text that shows   *)
(* s2 but not the component, built in the same full render, that reads s1  *)
(* only                                                                    *)
C35_Witness ==
  /\ ret.op = "dirty" /\ ret.wrote = {"s2"}
  /\ ret.comps # << >>
  /\ \E c \in Cids :
       /\ <<"s1", c>> \in everRead[ret.sid]
       /\ <<"s2", c>> \notin everRead[ret.sid]
       /\ c \notin Returned(ret.comps)


(* C37 as claimed: no action is lost: a page never goes away with          *)
(* payloads still in its queue, and its queue is empty once its channel    *)
(* has opened                                                              *)
C37_NoActionLost ==
  /\ page.dropped = << >>
  /\ page.opened => page.actionQueue = << >>

(* C37, amended: before the channel opens nothing is sent and every        *)
(* action is queued; at any time the payloads sent, followed by those      *)
(* queued, are the actions in the order they were triggered, each once;    *)
(* while the channel is ready the queue is empty, so the actions queued    *)
(* before the open were sent before those triggered after it               *)
C37_QueueFlushedOnOpen ==
  /\ page.sent \o page.actionQueue = page.triggered
  /\ ~page.opened => page.sent = << >>
  /\ page.wsReady => page.actionQueue = << >>

(* two clicks before the channel opened and one after: all three were      *)
(* sent, in the order of the clicks                                        *)
C37_Witness ==
  /\ page.opened /\ page.wsReady
  /\ page.triggered = <<1, 0, 1>>
  /\ page.sent = <<1, 0, 1>>
  /\ page.actionQueue = << >>


(* the session ids a broadcast visited *)
Visited(log) == {log[i].sid : i \in DOMAIN log}

(* C38: when a broadcast is over, it has visited every session that had a  *)
(* registered channel when it started, except the caller's when            *)
(* exclude_current was set, once each and no other, whichever sends        *)
(* failed; at each session that still had a registered channel it sent     *)
(* the code on that channel unless the send failed, and it sent nothing    *)
(* else                                                                    *)
C38_BroadcastDelivery ==
  (~cast.busy /\ cast.snap # {}) =>
     /\ Visited(cast.log) = cast.snap \ {cast.excl}
     /\ Len(cast.log) = Cardinality(cast.snap \ {cast.excl})
     /\ \A i \in DOMAIN cast.log :
          /\ cast.log[i].reg # NoConn => cast.log[i].did \in {"sent", "failed"}
          /\ cast.log[i].reg = NoConn => cast.log[i].did = "skipped"
     /\ Len(cast.msgs) =
          Cardinality({i \in DOMAIN cast.log : cast.log[i].did = "sent"})
     /\ \A m \in {cast.msgs[j] : j \in DOMAIN cast.msgs} :
          /\ m.type = "eval" /\ m.code = "code"
          /\ \E i \in DOMAIN cast.log :
               cast.log[i].did = "sent" /\ cast.log[i].reg = m.to

(* a broadcast over sessions A and B in which the first send failed and    *)
(* the second went through                                                 *)
C38_Witness ==
  /\ ~cast.busy /\ cast.snap = {"A", "B"} /\ cast.excl = NoneSid
  /\ Len(cast.log) = 2
  /\ cast.log[1].did = "failed" /\ cast.log[2].did = "sent"
  /\ Len(cast.msgs) = 1


(* ------------------------------- tokens -------------------------------- *)
(* the step answers the request a client sent last *)
Answered == ret'.op \in {"post", "click", "refused"} /\ conf' = conf

(* the request carries no token equal to the one derived from the session  *)
(* id of its task while CSRF protection is enabled                         *)
BadCsrf ==
  /\ conf.csrf_enabled
  /\ conf.req.csrf # generate_csrf_token(session_ctx[conf.req.task])

(* the request is a click that does not carry the configured native token *)
BadNative ==
  /\ conf.req.kind = "click"
  /\ conf.native_token # NoToken
  /\ conf.req.native # conf.native_token

(* the step runs no action callback and writes no signal *)
NoCallback ==
  /\ ret'.ran = << >>
  /\ \A s \in Sids : GLOBAL_STORE'[s].data.states = GLOBAL_STORE[s].data.states
  /\ written' = written

(* C39: while CSRF protection is enabled, a POST or a click that carries   *)
(* no token equal to the one derived from its session id runs no action    *)
(* callback and writes no signal; when a native token is configured, a     *)
(* click runs its callback only if it carries that native token            *)
C39_TokenPrecedesAction ==
  [][Answered /\ (BadCsrf \/ BadNative) => NoCallback]_vars

(* C39, with the order of the channel's checks: a POST without the         *)
(* session's CSRF token while CSRF protection is enabled, a click without  *)
(* the native token when one is configured, and a click without the        *)
(* session's CSRF token while CSRF protection is enabled and no native     *)
(* token is configured, run no action callback and write no signal         *)
C39_TokenCheck ==
  [][Answered
     /\ \/ conf.req.kind = "post" /\ BadCsrf
        \/ BadNative
        \/ conf.req.kind = "click" /\ conf.native_token = NoToken /\ BadCsrf
     => NoCallback]_vars

(* a click for a widget with a callback, sent on session A's channel with  *)
(* the CSRF token of session B, has been refused                           *)
C39_Witness ==
  /\ ret.op = "refused" /\ ret.kind = "csrf" /\ ret.sid = "A"
  /\ conf.req.kind = "click" /\ conf.req.cid = ret.cid
  /\ conf.req.csrf = generate_csrf_token("B")
  /\ static_actions[ret.cid] # NoAction

====
